---- MODULE Spec2Model ----
(***************************************************************************)
(* A model of the doubly-linked deque of src/src/fourth.rs                 *)
(* (List<T> over Rc<RefCell<Node<T>>>).                                    *)
(*                                                                         *)
(* The heap is a finite arena of node slots.  A Link is None (0) or the    *)
(* id of a slot.  Every Rc carries its strong count (rc) and every RefCell *)
(* its borrow flag (borrow: 0 free, k > 0 shared k times, -1 exclusive),   *)
(* both updated exactly where the code clones, moves, drops or borrows.    *)
(***************************************************************************)
EXTENDS Integers, Sequences, FiniteSets, TLC

\* ------------------------------------------------------------- bounds
MaxNodes == 3      \* slots of the arena: nodes alive at the same time
MaxVal == 2        \* payloads are 1..MaxVal
MaxPushes == 5     \* pushes in one run (caps the counters)
MaxCalls == 5      \* next/next_back calls on one iterator
MaxLists == 2      \* third::List values the caller holds at the same time
MaxGuards == 2     \* peek borrows the client holds at the same time

None == 0
Ids == 1..MaxNodes
Vals == 1..MaxVal

VARIABLES
    head,       \* List.head : Link
    tail,       \* List.tail : Link
    node,       \* the arena: id -> Node (elem, next, prev) with its RefCell flag
    rc,         \* id -> strong count of the Rc that owns the slot
    live,       \* the allocated slots
    panic,      \* "none", or the fatal path the program took
    ret,        \* the last call and what it returned
    abs,        \* the abstract sequence the same calls produce
    absret,     \* what the abstract sequence returned for the last call
    pushes,     \* number of push_front/push_back calls so far
    pops,       \* number of pops that returned Some
    pushDisc,   \* the end all pushes went to since the list was last empty
    popDisc,    \* the end all pops went to since the list was last empty
    log,        \* values pushed and not yet popped, oldest first
    logBefore,  \* the push-order log as it was before the last pop
    excl,       \* the peek the caller's RefMut came from ("none" without one)
    target,     \* the module the run exercises: "fourth", "second" or "fifth"
    phase,      \* "list", "iter" once into_iter took the list, "dropped"
    leaked,     \* id -> borrows of the node whose guard the caller forgot
                \* (std::mem::forget): k Refs, or -1 for the RefMut
    orig,       \* the elements the list held when into_iter took it
    fronts,     \* the values next returned, in call order
    backs,      \* the values next_back returned, in call order
    calls,      \* number of next/next_back calls so far
    noneSeen,   \* whether a next or next_back has returned None
    second,     \* second::List with its heap of boxed nodes
    fifth,      \* fifth::List (head, tailend) with its heap of boxed nodes
    third,      \* the heap of third::List nodes (Rc counts) and the lists the
                \* caller holds
    cursor      \* the borrowing iterator (Iter, IterMut): its next field and
                \* the nodes it has yielded references into

vars == <<head, tail, node, rc, live, panic, ret, abs, absret,
          pushes, pops, pushDisc, popDisc, log, logBefore, excl,
          target, phase, leaked, orig, fronts, backs, calls, noneSeen,
          second, fifth,
                   third, cursor>>

\* ------------------------------------------------------------- Node, Rc, RefCell

\* A slot that holds no node.
BlankNode == [elem |-> None, next |-> None, prev |-> None, borrow |-> 0]

\* The list with its heap, as one value the operations transform.
Cur == [head |-> head, tail |-> tail, node |-> node, rc |-> rc,
        live |-> live, panic |-> panic]

\* Node::new: a fresh Rc (strong count 1) around a node with no links.
NodeNew(S, e) ==
    LET n == CHOOSE i \in Ids \ S.live : \A j \in Ids \ S.live : i <= j
    IN  [st  |-> [S EXCEPT !.live = @ \cup {n},
                           !.rc[n] = 1,
                           !.node[n] = [elem |-> e, next |-> None,
                                        prev |-> None, borrow |-> 0]],
         ptr |-> n]

\* Rc::clone: one more owner.
RcClone(S, n) == [S EXCEPT !.rc[n] = @ + 1]

\* Dropping a Link: None does nothing; dropping an Rc takes one owner away, and
\* the last owner destroys the node, whose own links (next, then prev) are
\* dropped in turn.
RECURSIVE DropLink(_, _)
DropLink(S, l) ==
    IF l = None THEN S
    ELSE IF S.rc[l] > 1 THEN [S EXCEPT !.rc[l] = @ - 1]
    ELSE LET nx == S.node[l].next
             pv == S.node[l].prev
             S1 == [S EXCEPT !.rc[l] = 0,
                             !.live = @ \ {l},
                             !.node[l] = BlankNode]
         IN  DropLink(DropLink(S1, nx), pv)

\* borrow_mut that looks for an exclusive borrow only and overlooks shared
\* ones.
BorrowMutOverShared(S, n) ==
    IF S.node[n].borrow < 0
    THEN [S EXCEPT !.panic = "already borrowed"]
    ELSE [S EXCEPT !.node[n].borrow = -1]

\* RefCell::borrow_mut: fatal unless the cell is not borrowed at all.
BorrowMut(S, n) ==
    IF S.node[n].borrow # 0
    THEN [S EXCEPT !.panic = "already borrowed"]
    ELSE [S EXCEPT !.node[n].borrow = -1]

\* RefCell::borrow: fatal if the cell is exclusively borrowed.
Borrow(S, n) ==
    IF S.node[n].borrow < 0
    THEN [S EXCEPT !.panic = "already mutably borrowed"]
    ELSE [S EXCEPT !.node[n].borrow = @ + 1]

\* A RefMut whose drop leaves the cell's flag as it is.
ReleaseMutNever(S, n) == S

\* Dropping a RefMut, and dropping a Ref.
ReleaseMut(S, n) == [S EXCEPT !.node[n].borrow = 0]
ReleaseRef(S, n) == [S EXCEPT !.node[n].borrow = @ - 1]

\* `n.borrow_mut().prev = l;` with l already owned by the caller (moved in):
\* the old value of the field is dropped, then the RefMut temporary.
AssignPrev(S, n, l) ==
    LET B == BorrowMut(S, n)
    IN  IF B.panic # "none" THEN B
        ELSE LET old == B.node[n].prev
                 B1  == [B EXCEPT !.node[n].prev = l]
             IN  ReleaseMut(DropLink(B1, old), n)

\* `n.borrow_mut().next = l;`
AssignNext(S, n, l) ==
    LET B == BorrowMut(S, n)
    IN  IF B.panic # "none" THEN B
        ELSE LET old == B.node[n].next
                 B1  == [B EXCEPT !.node[n].next = l]
             IN  ReleaseMut(DropLink(B1, old), n)

\* `self.head = l;` and `self.tail = l;`: the old value is dropped.
AssignHead(S, l) == DropLink([S EXCEPT !.head = l], S.head)
AssignTail(S, l) == DropLink([S EXCEPT !.tail = l], S.tail)

\* `Rc::try_unwrap(n).ok().unwrap().into_inner().elem`: with one owner the
\* node is moved out of its Rc and RefCell, its payload is the result and the
\* rest of the node (next, prev) is dropped; with more owners try_unwrap
\* gives Err, ok() gives None and unwrap is fatal.
UnwrapElem(S, n) ==
    IF S.rc[n] # 1
    THEN [st |-> [S EXCEPT !.panic = "unwrap on None"], val |-> None]
    ELSE LET e  == S.node[n].elem
             nx == S.node[n].next
             pv == S.node[n].prev
             S1 == [S EXCEPT !.rc[n] = 0,
                             !.live = @ \ {n},
                             !.node[n] = BlankNode]
         IN  [st |-> DropLink(DropLink(S1, nx), pv), val |-> e]

\* pop_front or pop_back without the take() on the new boundary node: that
\* node keeps its link to the node being removed.
TakeNoLink(S, n) == S

\* `n.borrow_mut().prev.take();` inside pop_front: the link taken is a
\* temporary, dropped at the end of the statement together with the RefMut.
TakePrev(S, n) ==
    LET B == BorrowMut(S, n)
    IN  IF B.panic # "none" THEN B
        ELSE LET old == B.node[n].prev
                 B1  == [B EXCEPT !.node[n].prev = None]
             IN  ReleaseMut(DropLink(B1, old), n)

\* `n.borrow_mut().next.take();` inside pop_back.
TakeNext(S, n) ==
    LET B == BorrowMut(S, n)
    IN  IF B.panic # "none" THEN B
        ELSE LET old == B.node[n].next
                 B1  == [B EXCEPT !.node[n].next = None]
             IN  ReleaseMut(DropLink(B1, old), n)

\* The emptying branch of a pop without its take(): the other end keeps
\* its link.
TakeNothing(S) == S

\* `self.tail.take();` and `self.head.take();` as statements: the link taken
\* is dropped.
TakeTailDrop(S) == DropLink([S EXCEPT !.tail = None], S.tail)
TakeHeadDrop(S) == DropLink([S EXCEPT !.head = None], S.head)

\* ------------------------------------------------------------- List

\* List::new
ListNew == [head  |-> None, tail |-> None,
            node  |-> [i \in Ids |-> BlankNode],
            rc    |-> [i \in Ids |-> 0],
            live  |-> {},
            panic |-> "none"]

\* push_front whose empty-list branch sets head alone.
PushFrontNoTail(S, e) ==
    LET a        == NodeNew(S, e)
        new_head == a.ptr
        old_head == S.head
        S1       == [a.st EXCEPT !.head = None]
    IN  IF old_head # None
        THEN LET S2 == AssignPrev(RcClone(S1, new_head), old_head, new_head)
             IN  IF S2.panic # "none" THEN S2
                 ELSE LET S3 == AssignNext(S2, new_head, old_head)
                      IN  IF S3.panic # "none" THEN S3
                          ELSE AssignHead(S3, new_head)
        ELSE AssignHead(S1, new_head)

\* push_front whose non-empty branch does not set old_head.prev.
PushFrontNoPrev(S, e) ==
    LET a        == NodeNew(S, e)
        new_head == a.ptr
        old_head == S.head
        S1       == [a.st EXCEPT !.head = None]
    IN  IF old_head # None
        THEN LET S3 == AssignNext(S1, new_head, old_head)
             IN  IF S3.panic # "none" THEN S3
                 ELSE AssignHead(S3, new_head)
        ELSE AssignHead(AssignTail(RcClone(S1, new_head), new_head), new_head)

\* List::push_front
PushFront(S, e) ==
    LET a        == NodeNew(S, e)
        new_head == a.ptr
        old_head == S.head
        S1       == [a.st EXCEPT !.head = None]              \* self.head.take()
    IN  IF old_head # None
        THEN LET S2 == AssignPrev(RcClone(S1, new_head), old_head, new_head)
             IN  IF S2.panic # "none" THEN S2
                 ELSE LET S3 == AssignNext(S2, new_head, old_head)
                      IN  IF S3.panic # "none" THEN S3
                          ELSE AssignHead(S3, new_head)
        ELSE AssignHead(AssignTail(RcClone(S1, new_head), new_head), new_head)

\* push_back whose non-empty branch does not set old_tail.next.
PushBackNoNext(S, e) ==
    LET a        == NodeNew(S, e)
        new_tail == a.ptr
        old_tail == S.tail
        S1       == [a.st EXCEPT !.tail = None]
    IN  IF old_tail # None
        THEN LET S3 == AssignPrev(S1, new_tail, old_tail)
             IN  IF S3.panic # "none" THEN S3
                 ELSE AssignTail(S3, new_tail)
        ELSE AssignTail(AssignHead(RcClone(S1, new_tail), new_tail), new_tail)

\* push_back written as a copy of push_front with nothing swapped.
PushBackAtFront(S, e) == PushFront(S, e)

\* List::push_back
PushBack(S, e) ==
    LET a        == NodeNew(S, e)
        new_tail == a.ptr
        old_tail == S.tail
        S1       == [a.st EXCEPT !.tail = None]              \* self.tail.take()
    IN  IF old_tail # None
        THEN LET S2 == AssignNext(RcClone(S1, new_tail), old_tail, new_tail)
             IN  IF S2.panic # "none" THEN S2
                 ELSE LET S3 == AssignPrev(S2, new_tail, old_tail)
                      IN  IF S3.panic # "none" THEN S3
                          ELSE AssignTail(S3, new_tail)
        ELSE AssignTail(AssignHead(RcClone(S1, new_tail), new_tail), new_tail)

\* The result of a pop: the list after it, the value returned (None for
\* Option::None) and the node that was unlinked.
PopResult(S, v, n) == [st |-> S, val |-> v, unlinked |-> n]

\* List::pop_front.  The RefMut of the scrutinee old_head.borrow_mut() lives
\* until the end of the match.
PopFront(S) ==
    LET old_head == S.head
        S1       == [S EXCEPT !.head = None]                 \* self.head.take()
    IN  IF old_head = None THEN PopResult(S, None, None)
        ELSE
        LET S2 == BorrowMut(S1, old_head)
        IN  IF S2.panic # "none" THEN PopResult(S2, None, old_head)
            ELSE
            LET new_head == S2.node[old_head].next
                S3 == [S2 EXCEPT !.node[old_head].next = None]   \* next.take()
                S4 == IF new_head # None
                      THEN LET T == TakePrev(S3, new_head)
                           IN  IF T.panic # "none" THEN T
                               ELSE AssignHead(T, new_head)
                      ELSE TakeTailDrop(S3)
            IN  IF S4.panic # "none" THEN PopResult(S4, None, old_head)
                ELSE LET u == UnwrapElem(ReleaseMut(S4, old_head), old_head)
                     IN  PopResult(u.st, u.val, old_head)

\* pop_back written as a copy of pop_front with nothing swapped.
PopBackAtFront(S) == PopFront(S)

\* pop_back without `self.tail = Some(new_tail)`: the link taken out of
\* old_tail.prev is dropped at the end of the match arm instead.
PopBackLosesTail(S) ==
    LET old_tail == S.tail
        S1       == [S EXCEPT !.tail = None]
    IN  IF old_tail = None THEN PopResult(S, None, None)
        ELSE
        LET S2 == BorrowMut(S1, old_tail)
        IN  IF S2.panic # "none" THEN PopResult(S2, None, old_tail)
            ELSE
            LET new_tail == S2.node[old_tail].prev
                S3 == [S2 EXCEPT !.node[old_tail].prev = None]
                S4 == IF new_tail # None
                      THEN LET T == TakeNext(S3, new_tail)
                           IN  IF T.panic # "none" THEN T
                               ELSE DropLink(T, new_tail)
                      ELSE TakeHeadDrop(S3)
            IN  IF S4.panic # "none" THEN PopResult(S4, None, old_tail)
                ELSE LET u == UnwrapElem(ReleaseMut(S4, old_tail), old_tail)
                     IN  PopResult(u.st, u.val, old_tail)

\* List::pop_back
PopBack(S) ==
    LET old_tail == S.tail
        S1       == [S EXCEPT !.tail = None]                 \* self.tail.take()
    IN  IF old_tail = None THEN PopResult(S, None, None)
        ELSE
        LET S2 == BorrowMut(S1, old_tail)
        IN  IF S2.panic # "none" THEN PopResult(S2, None, old_tail)
            ELSE
            LET new_tail == S2.node[old_tail].prev
                S3 == [S2 EXCEPT !.node[old_tail].prev = None]   \* prev.take()
                S4 == IF new_tail # None
                      THEN LET T == TakeNext(S3, new_tail)
                           IN  IF T.panic # "none" THEN T
                               ELSE AssignTail(T, new_tail)
                      ELSE TakeHeadDrop(S3)
            IN  IF S4.panic # "none" THEN PopResult(S4, None, old_tail)
                ELSE LET u == UnwrapElem(ReleaseMut(S4, old_tail), old_tail)
                     IN  PopResult(u.st, u.val, old_tail)

\* List::peek_front and List::peek_back: None on the empty list, else a Ref
\* on the boundary node's payload (the node stays borrowed while the caller
\* keeps the Ref).
Peek(S, n) ==
    IF n = None THEN PopResult(S, None, None)
    ELSE LET B == Borrow(S, n)
         IN  IF B.panic # "none" THEN PopResult(B, None, None)
             ELSE PopResult(B, B.node[n].elem, None)

\* peek_front written as a copy of peek_back with nothing swapped.
PeekFrontAtBack(S) == Peek(S, S.tail)

PeekFront(S) == Peek(S, S.head)
PeekBack(S)  == Peek(S, S.tail)

\* List::peek_front_mut and List::peek_back_mut: a RefMut instead.
PeekMut(S, n) ==
    IF n = None THEN PopResult(S, None, None)
    ELSE LET B == BorrowMut(S, n)
         IN  IF B.panic # "none" THEN PopResult(B, None, None)
             ELSE PopResult(B, B.node[n].elem, None)

\* peek_front_mut written as a copy of peek_back_mut with nothing swapped.
PeekFrontMutAtBack(S) == PeekMut(S, S.tail)

PeekFrontMut(S) == PeekMut(S, S.head)
PeekBackMut(S)  == PeekMut(S, S.tail)

\* ------------------------------------------------------------- first::List

\* first::List::new: head is Link::Empty (None here), the heap holds no box.
FirstNew == [head |-> None,
             node |-> [i \in Ids |-> [elem |-> None, next |-> None]],
             live |-> {}]

\* first::List::push: the head is replaced by Empty, the old head becomes
\* the next of a new box, and head is set to that box.
FirstPush(L, e) ==
    LET old == L.head                    \* mem::replace(&mut self.head, Empty)
        L1  == [L EXCEPT !.head = None]
        n   == CHOOSE i \in Ids \ L1.live : \A j \in Ids \ L1.live : i <= j
        L2  == [L1 EXCEPT !.node[n] = [elem |-> e, next |-> old],
                          !.live = @ \cup {n}]
    IN  [L2 EXCEPT !.head = n]

\* pop without `self.head = node.next`: head stays the Empty that
\* mem::replace put there, and the rest of the chain is dropped with the box.
RECURSIVE FreeChain(_, _)
FreeChain(L, n) ==
    IF n = None THEN L
    ELSE FreeChain([L EXCEPT !.node[n] = [elem |-> None, next |-> None],
                             !.live = @ \ {n}],
                   L.node[n].next)
FirstPopDropsRest(L) ==
    IF L.head = None THEN [st |-> L, val |-> None]
    ELSE [st  |-> FreeChain([L EXCEPT !.head = None], L.head),
          val |-> L.node[L.head].elem]

\* first::List::pop: the head is replaced by Empty; Empty gives None; a box
\* gives its payload, its next becoming the head, and is freed.
FirstPop(L) ==
    LET old == L.head                    \* mem::replace(&mut self.head, Empty)
        L1  == [L EXCEPT !.head = None]
    IN  IF old = None THEN [st |-> L1, val |-> None]
        ELSE [st  |-> [L1 EXCEPT !.head = L.node[old].next,
                                 !.node[old] = [elem |-> None, next |-> None],
                                 !.live = @ \ {old}],
              val |-> L.node[old].elem]

\* ------------------------------------------------------------- second::List

\* second::List::new, with an empty heap of boxes.
SecondNew == [head |-> None,
              node |-> [i \in Ids |-> [elem |-> None, next |-> None]],
              live |-> {}]

BlankBox == [elem |-> None, next |-> None]

\* Box::new(Node { elem, next }): the smallest free slot.
BoxNew(L, e, nx) ==
    LET n == CHOOSE i \in Ids \ L.live : \A j \in Ids \ L.live : i <= j
    IN  [st |-> [L EXCEPT !.node[n] = [elem |-> e, next |-> nx],
                          !.live = @ \cup {n}],
         id |-> n]

\* second::List::push.
SecondPush(L, e) ==
    LET taken == [L EXCEPT !.head = None]
        b     == BoxNew(taken, e, L.head)
    IN  [b.st EXCEPT !.head = b.id]

\* second::List::pop: the box of the old head is freed.
SecondPop(L) ==
    IF L.head = None THEN [st |-> L, val |-> None]
    ELSE LET n == L.head
         IN  [st  |-> [L EXCEPT !.head = L.node[n].next,
                                !.node[n] = BlankBox,
                                !.live = @ \ {n}],
              val |-> L.node[n].elem]

\* second::List::peek: the payload the returned reference reads.
SecondPeek(L) == IF L.head = None THEN None ELSE L.node[L.head].elem

\* peek_mut written with the head's successor in place of the head.
SecondPeekMutPastHead(L) ==
    IF L.head = None THEN None ELSE L.node[L.head].next

\* second::List::peek_mut: the node whose payload the returned `&mut T`
\* refers to.
SecondPeekMut(L) == L.head

\* The elements of a second::List, head first.
RECURSIVE SecondElems(_, _, _)
SecondElems(L, n, k) ==
    IF n = None \/ k = 0 THEN <<>>
    ELSE <<L.node[n].elem>> \o SecondElems(L, L.node[n].next, k - 1)

\* ------------------------------------------------------------- fifth::List

\* fifth::List::new, with an empty heap of boxes; ub records a write through
\* a tailend that no longer refers to a node.
FifthNew == [head |-> None, tailend |-> None,
             node |-> [i \in Ids |-> [elem |-> None, next |-> None]],
             live |-> {},
             ub   |-> FALSE]

\* The public methods of fourth::List with its IntoIter, and of fifth::List.
FourthOps == {"new", "push_front", "push_back", "pop_front", "pop_back",
              "peek_front", "peek_back", "peek_front_mut", "peek_back_mut",
              "into_iter", "next", "next_back"}
FifthOps == {"new", "push", "pop"}

\* push that links the new node in front of the head, as the stack of
\* module second does.
FifthPushAtHead(F, e) ==
    LET b == BoxNew(F, e, F.head)
    IN  [b.st EXCEPT !.head = b.id,
                     !.tailend = IF F.tailend = None THEN b.id ELSE @]

\* fifth::List::push: the new node goes behind the node tailend refers to,
\* or becomes the head of an empty queue, and tailend refers to it.
FifthPush(F, e) ==
    LET b   == BoxNew(F, e, None)
        old == F.tailend                              \* self.tailend.take()
        T   == [b.st EXCEPT !.tailend = None]
    IN  IF old # None
        THEN IF old \in F.live
             THEN [T EXCEPT !.node[old].next = b.id, !.tailend = b.id]
             ELSE [T EXCEPT !.ub = TRUE, !.tailend = b.id]
        ELSE [T EXCEPT !.head = b.id, !.tailend = b.id]

\* pop without `if self.head.is_none() { self.tailend = None; }`.
FifthPopKeepsTailend(F) ==
    IF F.head = None THEN [st |-> F, val |-> None]
    ELSE LET h == F.head
         IN  [st  |-> [F EXCEPT !.head = F.node[h].next,
                                !.node[h] = BlankBox,
                                !.live = @ \ {h}],
              val |-> F.node[h].elem]

\* fifth::List::pop: the head's box is freed, its successor becomes the
\* head, and tailend is cleared when no head is left.
FifthPop(F) ==
    IF F.head = None THEN [st |-> F, val |-> None]
    ELSE LET h  == F.head
             nx == F.node[h].next
             F1 == [F EXCEPT !.head = nx,
                             !.node[h] = BlankBox,
                             !.live = @ \ {h}]
             F2 == IF nx = None THEN [F1 EXCEPT !.tailend = None] ELSE F1
         IN  [st |-> F2, val |-> F.node[h].elem]

\* ------------------------------------------------------------- third::List

\* A handle that holds no list.
Absent == -1
Handles == 1..MaxLists

\* The payloads the runs on third::List prepend.
ThirdVals == {1, MaxVal}

\* The heap of Rc<Node<T>> and the lists the caller holds; the run starts
\* with one list made by third::List::new.
ThirdNew ==
    [node  |-> [i \in Ids |-> BlankBox],
     rc    |-> [i \in Ids |-> 0],
     live  |-> {},
     lists |-> [h \in Handles |-> IF h = 1 THEN None ELSE Absent]]

\* Option<Rc<Node>>::clone: one more owner of the node, if there is one.
LinkClone(T, l) == IF l = None THEN T ELSE [T EXCEPT !.rc[l] = @ + 1]

\* tail that returns a clone of the head link itself.
ThirdTailWhole(T, l) == [st |-> LinkClone(T, l), head |-> l]

\* third::List::prepend on the list whose head link is l: a new Rc (count 1)
\* around a node whose next is a clone of l.
ThirdPrepend(T, l, e) ==
    LET C == LinkClone(T, l)
        n == CHOOSE i \in Ids \ T.live : \A j \in Ids \ T.live : i <= j
    IN  [st   |-> [C EXCEPT !.node[n] = [elem |-> e, next |-> l],
                            !.rc[n] = 1,
                            !.live = @ \cup {n}],
         head |-> n]

\* third::List::tail: a clone of the head node's next link, None for the
\* empty list.
ThirdTail(T, l) ==
    IF l = None THEN [st |-> T, head |-> None]
    ELSE [st |-> LinkClone(T, T.node[l].next), head |-> T.node[l].next]

\* third::List::head.
ThirdHead(T, l) == IF l = None THEN None ELSE T.node[l].elem

\* Drop that unlinks every node it meets, shared or not.
RECURSIVE ThirdDropThrough(_, _)
ThirdDropThrough(T, l) ==
    IF l = None THEN T
    ELSE ThirdDropThrough([T EXCEPT !.rc[l] = 0,
                                    !.live = @ \ {l},
                                    !.node[l] = BlankBox],
                          T.node[l].next)

\* impl Drop for third::List, from the link taken out of self.head: a node
\* with one owner is unwrapped, its next taken and the node freed; at a node
\* with more owners try_unwrap gives the Rc back in Err, whose drop takes
\* this owner away, and the loop ends.
RECURSIVE ThirdDrop(_, _)
ThirdDrop(T, l) ==
    IF l = None THEN T
    ELSE IF T.rc[l] = 1
    THEN ThirdDrop([T EXCEPT !.rc[l] = 0,
                             !.live = @ \ {l},
                             !.node[l] = BlankBox],
                   T.node[l].next)
    ELSE [T EXCEPT !.rc[l] = @ - 1]

\* The elements of a third::List, head first.
RECURSIVE ThirdElems(_, _, _)
ThirdElems(T, n, k) ==
    IF n = None \/ k = 0 THEN <<>>
    ELSE <<T.node[n].elem>> \o ThirdElems(T, T.node[n].next, k - 1)

\* The nodes of a third::List, head first.
RECURSIVE ThirdNodes(_, _, _)
ThirdNodes(T, n, k) ==
    IF n = None \/ k = 0 THEN <<>>
    ELSE <<n>> \o ThirdNodes(T, T.node[n].next, k - 1)

\* ------------------------------------------------------------- the caller

\* The heap and list fields after an operation.
Install(S) ==
    /\ head'  = S.head
    /\ tail'  = S.tail
    /\ node'  = S.node
    /\ rc'    = S.rc
    /\ live'  = S.live
    /\ panic' = S.panic

\* What a call reports: its name, the value it returned (None for
\* Option::None and for calls that return nothing), the node a pop unlinked.
Ret(op, v, n) == [op |-> op, val |-> v, unlinked |-> n]

\* The borrow checker's part: a Ref or RefMut a peek returned borrows the
\* list, so a `&mut self` method can be called only while the caller holds
\* no such guard, and a `&self` method only while it holds no RefMut.
\* A guard the caller forgot no longer borrows the list, but its borrow of
\* the node is never given back.
MutCallOK    == \A n \in live : node[n].borrow = leaked[n]
SharedCallOK == \A n \in live : node[n].borrow >= 0 \/ leaked[n] < 0
GuardsHeld   == Cardinality({n \in live : node[n].borrow < 0})
                + (IF head # None /\ node[head].borrow > 0
                   THEN node[head].borrow ELSE 0)
                + (IF tail # None /\ tail # head /\ node[tail].borrow > 0
                   THEN node[tail].borrow ELSE 0)

\* The abstract sequence.
AbsFront(s) == IF s = <<>> THEN None ELSE Head(s)
AbsBack(s)  == IF s = <<>> THEN None ELSE s[Len(s)]
AbsPopFront(s) == IF s = <<>> THEN s ELSE Tail(s)
AbsPopBack(s)  == IF s = <<>> THEN s ELSE SubSeq(s, 1, Len(s) - 1)

\* The discipline of a run of calls: the one end used so far, or "mixed".
Join(d, e) == IF d = "none" \/ d = e THEN e ELSE "mixed"

\* The push-order log after a push at end e of a list whose abstract
\* sequence was s.
PushGhost(e, v, s) ==
    /\ pushDisc' = IF s = <<>> THEN e ELSE Join(pushDisc, e)
    /\ popDisc'  = IF s = <<>> THEN "none" ELSE popDisc
    /\ log'      = IF s = <<>> THEN <<v>>
                   ELSE IF Join(pushDisc, e) = "mixed" THEN <<>>
                   ELSE Append(log, v)
    /\ logBefore' = <<>>

\* The push-order log after a pop at end e: with all pushes at one end, a
\* pop at that end takes the newest value and a pop at the other end the
\* oldest.
PopGhost(e) ==
    /\ pushDisc' = pushDisc
    /\ popDisc'  = Join(popDisc, e)
    /\ logBefore' = log
    /\ log'      = IF pushDisc = "mixed" \/ log = <<>> THEN <<>>
                   ELSE IF pushDisc = e THEN SubSeq(log, 1, Len(log) - 1)
                   ELSE Tail(log)

InitList ==
    /\ head = ListNew.head
    /\ tail = ListNew.tail
    /\ node = ListNew.node
    /\ rc = ListNew.rc
    /\ live = ListNew.live
    /\ panic = ListNew.panic
    /\ ret = Ret("new", None, None)
    /\ abs = <<>>
    /\ absret = None
    /\ pushes = 0
    /\ pops = 0
    /\ pushDisc = "none"
    /\ popDisc = "none"
    /\ log = <<>>
    /\ logBefore = <<>>
    /\ excl = "none"
    /\ phase = "list"
    /\ leaked = [i \in Ids |-> 0]
    /\ orig = <<>>
    /\ fronts = <<>>
    /\ backs = <<>>
    /\ calls = 0
    /\ noneSeen = FALSE
    /\ second = SecondNew
    /\ fifth = FifthNew
    /\ third = ThirdNew
    /\ cursor = [next |-> None, given |-> <<>>]

Init == InitList /\ target = "fourth"

\* The calls themselves: the list, the value returned and the abstract
\* sequence.  The counters and the push-order log are added per specification.
PushFrontCall(e) ==
    /\ panic = "none" /\ MutCallOK
    /\ Cardinality(live) < MaxNodes
    /\ Install(PushFront(Cur, e))
    /\ ret' = Ret("push_front", None, None)
    /\ abs' = <<e>> \o abs
    /\ absret' = None

PushBackCall(e) ==
    /\ panic = "none" /\ MutCallOK
    /\ Cardinality(live) < MaxNodes
    /\ Install(PushBack(Cur, e))
    /\ ret' = Ret("push_back", None, None)
    /\ abs' = Append(abs, e)
    /\ absret' = None

PopFrontCall ==
    /\ panic = "none" /\ MutCallOK
    /\ LET r == PopFront(Cur)
       IN  /\ Install(r.st)
           /\ ret' = Ret("pop_front", r.val, r.unlinked)
    /\ abs' = AbsPopFront(abs)
    /\ absret' = AbsFront(abs)

PopBackCall ==
    /\ panic = "none" /\ MutCallOK
    /\ LET r == PopBack(Cur)
       IN  /\ Install(r.st)
           /\ ret' = Ret("pop_back", r.val, r.unlinked)
    /\ abs' = AbsPopBack(abs)
    /\ absret' = AbsBack(abs)

\* The counters: a push counts as one, a pop counts when it returned Some.
CountPush == pushes < MaxPushes /\ pushes' = pushes + 1 /\ pops' = pops
CountPop  == pushes' = pushes /\ pops' = IF ret'.val # None THEN pops + 1 ELSE pops

NoOrder == UNCHANGED <<pushDisc, popDisc, log, logBefore>>
NoCount == UNCHANGED <<pushes, pops, excl>>

\* What a call on the list of module fourth leaves alone.
Quiet == UNCHANGED <<target, phase, leaked, orig, fronts, backs, calls,
                     noneSeen, second, fifth,
                   third, cursor>>

PushFrontAct(e) == PushFrontCall(e) /\ CountPush /\ NoOrder /\ UNCHANGED excl /\ Quiet
PushBackAct(e)  == PushBackCall(e) /\ CountPush /\ NoOrder /\ UNCHANGED excl /\ Quiet
PopFrontAct     == PopFrontCall /\ CountPop /\ NoOrder /\ UNCHANGED excl /\ Quiet
PopBackAct      == PopBackCall /\ CountPop /\ NoOrder /\ UNCHANGED excl /\ Quiet

PeekFrontAct ==
    /\ panic = "none" /\ SharedCallOK /\ GuardsHeld < MaxGuards
    /\ LET r == PeekFront(Cur)
       IN  /\ Install(r.st)
           /\ ret' = Ret("peek_front", r.val, None)
    /\ absret' = AbsFront(abs)
    /\ NoOrder /\ Quiet
    /\ UNCHANGED <<abs, pushes, pops, excl>>

PeekBackAct ==
    /\ panic = "none" /\ SharedCallOK /\ GuardsHeld < MaxGuards
    /\ LET r == PeekBack(Cur)
       IN  /\ Install(r.st)
           /\ ret' = Ret("peek_back", r.val, None)
    /\ absret' = AbsBack(abs)
    /\ NoOrder /\ Quiet
    /\ UNCHANGED <<abs, pushes, pops, excl>>

PeekFrontMutAct ==
    /\ panic = "none" /\ MutCallOK
    /\ LET r == PeekFrontMut(Cur)
       IN  /\ Install(r.st)
           /\ ret' = Ret("peek_front_mut", r.val, None)
           /\ excl' = IF r.val # None THEN "front" ELSE "none"
    /\ absret' = AbsFront(abs)
    /\ NoOrder /\ Quiet
    /\ UNCHANGED <<abs, pushes, pops>>

PeekBackMutAct ==
    /\ panic = "none" /\ MutCallOK
    /\ LET r == PeekBackMut(Cur)
       IN  /\ Install(r.st)
           /\ ret' = Ret("peek_back_mut", r.val, None)
           /\ excl' = IF r.val # None THEN "back" ELSE "none"
    /\ absret' = AbsBack(abs)
    /\ NoOrder /\ Quiet
    /\ UNCHANGED <<abs, pushes, pops>>

\* The caller writes v through the RefMut it holds (`*guard = v`).
WriteAct(n, v) ==
    /\ panic = "none"
    /\ n \in live /\ node[n].borrow = -1 /\ leaked[n] = 0
    /\ node' = [node EXCEPT ![n].elem = v]
    /\ ret' = Ret("write", None, None)
    /\ abs' = IF excl = "front" THEN [abs EXCEPT ![1] = v]
              ELSE [abs EXCEPT ![Len(abs)] = v]
    /\ absret' = None
    /\ NoOrder /\ Quiet
    /\ UNCHANGED <<head, tail, rc, live, panic, pushes, pops, excl>>

\* The caller drops a guard (a Ref or the RefMut) it holds on node n.
ReleaseAct(n) ==
    /\ panic = "none"
    /\ n \in live /\ node[n].borrow # leaked[n]
    /\ Install(IF node[n].borrow < 0 THEN ReleaseMut(Cur, n)
               ELSE ReleaseRef(Cur, n))
    /\ ret' = Ret("release", None, None)
    /\ excl' = "none"
    /\ absret' = None
    /\ NoOrder /\ Quiet
    /\ UNCHANGED <<abs, pushes, pops>>

Next ==
    \/ \E e \in Vals : PushFrontAct(e)
    \/ \E e \in Vals : PushBackAct(e)
    \/ PopFrontAct
    \/ PopBackAct
    \/ PeekFrontAct
    \/ PeekBackAct
    \/ PeekFrontMutAct
    \/ PeekBackMutAct
    \/ \E n \in Ids, v \in Vals : WriteAct(n, v)
    \/ \E n \in Ids : ReleaseAct(n)

Spec == Init /\ [][Next]_vars

\* Runs of pushes and pops alone, with the push-order log kept.

PushFrontOrd(e) == PushFrontCall(e) /\ PushGhost("front", e, abs) /\ NoCount /\ Quiet
PushBackOrd(e)  == PushBackCall(e) /\ PushGhost("back", e, abs) /\ NoCount /\ Quiet
PopFrontOrd     == PopFrontCall /\ PopGhost("front") /\ NoCount /\ Quiet
PopBackOrd      == PopBackCall /\ PopGhost("back") /\ NoCount /\ Quiet

NextOrd ==
    \/ \E e \in Vals : PushFrontOrd(e)
    \/ \E e \in Vals : PushBackOrd(e)
    \/ PopFrontOrd
    \/ PopBackOrd

SpecOrd == Init /\ [][NextOrd]_vars

\* ------------------------------------------------------------- forgotten guards, drop

\* Drop with `if` in place of `while`: one pop_front.
DropOnce(S) == PopFront(S).st

\* impl Drop for List: `while self.pop_front().is_some() {}`.
RECURSIVE DropList(_)
DropList(S) ==
    LET r == PopFront(S)
    IN  IF r.st.panic # "none" \/ r.val = None THEN r.st
        ELSE DropList(r.st)

\* The caller passes a guard it holds on node n to std::mem::forget: the
\* guard's borrow of the list ends, the RefCell's flag is never restored.
ForgetAct(n) ==
    /\ panic = "none" /\ phase = "list"
    /\ n \in live /\ node[n].borrow # leaked[n]
    /\ leaked' = [leaked EXCEPT ![n] = IF node[n].borrow < 0 THEN -1
                                        ELSE @ + 1]
    /\ ret' = Ret("forget", None, None)
    /\ excl' = "none"
    /\ absret' = None
    /\ NoOrder
    /\ UNCHANGED <<head, tail, node, rc, live, panic, abs, pushes, pops,
                   target, phase, orig, fronts, backs, calls, noneSeen,
                   second, fifth,
                   third, cursor>>

\* The list, or the IntoIter that holds it, goes out of scope; no guard
\* the caller holds borrows it.
DropAct ==
    /\ panic = "none" /\ phase \in {"list", "iter"} /\ MutCallOK
    /\ Install(DropList(Cur))
    /\ phase' = "dropped"
    /\ ret' = Ret("drop", None, None)
    /\ absret' = None
    /\ NoOrder
    /\ UNCHANGED <<abs, pushes, pops, excl, target, leaked, orig, fronts,
                   backs, calls, noneSeen, second, fifth,
                   third, cursor>>

\* Pushes and pops with neither the counters nor the push-order log kept.
PushFrontPlain(e) ==
    phase = "list" /\ PushFrontCall(e) /\ NoCount /\ NoOrder /\ Quiet
PushBackPlain(e) ==
    phase = "list" /\ PushBackCall(e) /\ NoCount /\ NoOrder /\ Quiet
PopFrontPlain ==
    phase = "list" /\ PopFrontCall /\ NoCount /\ NoOrder /\ Quiet
PopBackPlain ==
    phase = "list" /\ PopBackCall /\ NoCount /\ NoOrder /\ Quiet

\* Runs in which the caller may forget guards and drop the list.
NextAlias ==
    \/ \E e \in Vals : PushFrontPlain(e)
    \/ \E e \in Vals : PushBackPlain(e)
    \/ PopFrontPlain
    \/ PopBackPlain
    \/ phase = "list" /\ PeekFrontAct
    \/ phase = "list" /\ PeekBackAct
    \/ phase = "list" /\ PeekFrontMutAct
    \/ phase = "list" /\ PeekBackMutAct
    \/ \E n \in Ids, v \in Vals : phase = "list" /\ WriteAct(n, v)
    \/ \E n \in Ids : phase = "list" /\ ReleaseAct(n)
    \/ \E n \in Ids : ForgetAct(n)
    \/ DropAct

SpecAlias == Init /\ [][NextAlias]_vars

\* ------------------------------------------------------------- second::List calls

\* What a call on a second::List leaves alone.
FourthIdle == UNCHANGED <<head, tail, node, rc, live, panic, leaked, fifth, third, cursor,
                          target>>
NoIter == UNCHANGED <<phase, orig, fronts, backs, calls, noneSeen>>

SecondPushAct(e) ==
    /\ phase = "list" /\ excl = "none"
    /\ Cardinality(second.live) < MaxNodes
    /\ second' = SecondPush(second, e)
    /\ ret' = Ret("push", None, None)
    /\ abs' = <<e>> \o abs
    /\ absret' = None
    /\ CountPush /\ NoOrder /\ FourthIdle /\ NoIter
    /\ UNCHANGED excl

SecondPopAct ==
    /\ phase = "list" /\ excl = "none"
    /\ LET r == SecondPop(second)
       IN  /\ second' = r.st
           /\ ret' = Ret("pop", r.val, None)
    /\ abs' = AbsPopFront(abs)
    /\ absret' = AbsFront(abs)
    /\ CountPop /\ NoOrder /\ FourthIdle /\ NoIter
    /\ UNCHANGED excl

SecondPeekAct ==
    /\ phase = "list" /\ excl = "none"
    /\ ret' = Ret("peek", SecondPeek(second), None)
    /\ absret' = AbsFront(abs)
    /\ NoOrder /\ FourthIdle /\ NoIter
    /\ UNCHANGED <<second, abs, pushes, pops, excl>>

\* peek_mut: while the caller keeps the `&mut T` the list is mutably
\* borrowed, so no other call compiles until the reference is given up.
SecondPeekMutAct ==
    /\ phase = "list" /\ excl = "none"
    /\ LET n == SecondPeekMut(second)
       IN  /\ ret' = Ret("peek_mut",
                         IF n = None THEN None ELSE second.node[n].elem, n)
           /\ excl' = IF n = None THEN "none" ELSE "head"
    /\ absret' = AbsFront(abs)
    /\ NoOrder /\ FourthIdle /\ NoIter
    /\ UNCHANGED <<second, abs, pushes, pops>>

\* The caller writes v through the `&mut T` (`*value = v`) to node n and
\* gives the reference up.
SecondWriteAct(n, v) ==
    /\ phase = "list" /\ excl = "head"
    /\ ret.op = "peek_mut" /\ n = ret.unlinked
    /\ second' = [second EXCEPT !.node[n].elem = v]
    /\ ret' = Ret("write", None, None)
    /\ abs' = [abs EXCEPT ![1] = v]
    /\ absret' = None
    /\ excl' = "none"
    /\ NoOrder /\ FourthIdle /\ NoIter
    /\ UNCHANGED <<pushes, pops>>

\* The caller gives the `&mut T` up without writing.
SecondReleaseAct ==
    /\ phase = "list" /\ excl = "head"
    /\ ret' = Ret("release", None, None)
    /\ absret' = None
    /\ excl' = "none"
    /\ NoOrder /\ FourthIdle /\ NoIter
    /\ UNCHANGED <<second, abs, pushes, pops>>

NextSecond ==
    \/ \E e \in Vals : SecondPushAct(e)
    \/ SecondPopAct
    \/ SecondPeekAct
    \/ SecondPeekMutAct
    \/ \E n \in Ids, v \in Vals : SecondWriteAct(n, v)
    \/ SecondReleaseAct

\* Runs on a list of module fourth or on a list of module second.
InitMut == InitList /\ target \in {"fourth", "second"}

NextMut ==
    \/ target = "fourth" /\ Next
    \/ target = "second" /\ NextSecond

SpecMut == InitMut /\ [][NextMut]_vars

\* ------------------------------------------------------------- IntoIter

\* List::into_iter: `IntoIter(self)`, the list moved into the iterator.
IntoIter(S) == S

\* A double-ended iterator that takes front and back meeting on one node
\* for exhaustion.
IterNextStopsAtLast(S) ==
    IF S.head = S.tail THEN PopResult(S, None, None) ELSE PopFront(S)

\* next wired to pop_back, and next_back wired to pop_front.
IterNextAtBack(S) == PopBack(S)
IterNextBackAtFront(S) == PopFront(S)

\* IntoIter::next: `self.0.pop_front()`.
IterNext(S) == PopFront(S)

\* IntoIter::next_back: `self.0.pop_back()`.
IterNextBack(S) == PopBack(S)

\* second::List::into_iter and second::IntoIter::next: `self.0.pop()`.
SecondIntoIter(L) == L
SecondIterNext(L) == SecondPop(L)

IterFrame == UNCHANGED <<pushes, pops, excl, target, phase, leaked, orig>>

\* into_iter takes the list by value: no guard borrows it.
IntoIterAct ==
    /\ target = "fourth" /\ phase = "list"
    /\ panic = "none" /\ MutCallOK
    /\ Install(IntoIter(Cur))
    /\ phase' = "iter"
    /\ orig' = abs
    /\ ret' = Ret("into_iter", None, None)
    /\ absret' = None
    /\ NoOrder
    /\ UNCHANGED <<abs, pushes, pops, excl, target, leaked, fronts, backs,
                   calls, noneSeen, second, fifth,
                   third, cursor>>

IterNextAct ==
    /\ target = "fourth" /\ phase = "iter"
    /\ panic = "none" /\ calls < MaxCalls
    /\ LET r == IterNext(Cur)
       IN  /\ Install(r.st)
           /\ ret' = Ret("next", r.val, r.unlinked)
           /\ fronts' = IF r.val # None THEN Append(fronts, r.val) ELSE fronts
           /\ noneSeen' = (noneSeen \/ r.val = None)
    /\ abs' = AbsPopFront(abs)
    /\ absret' = AbsFront(abs)
    /\ calls' = calls + 1
    /\ NoOrder /\ IterFrame
    /\ UNCHANGED <<backs, second, fifth,
                   third, cursor>>

IterNextBackAct ==
    /\ target = "fourth" /\ phase = "iter"
    /\ panic = "none" /\ calls < MaxCalls
    /\ LET r == IterNextBack(Cur)
       IN  /\ Install(r.st)
           /\ ret' = Ret("next_back", r.val, r.unlinked)
           /\ backs' = IF r.val # None THEN Append(backs, r.val) ELSE backs
           /\ noneSeen' = (noneSeen \/ r.val = None)
    /\ abs' = AbsPopBack(abs)
    /\ absret' = AbsBack(abs)
    /\ calls' = calls + 1
    /\ NoOrder /\ IterFrame
    /\ UNCHANGED <<fronts, second, fifth,
                   third, cursor>>

SecondIntoIterAct ==
    /\ target = "second" /\ phase = "list" /\ excl = "none"
    /\ second' = SecondIntoIter(second)
    /\ phase' = "iter"
    /\ orig' = abs
    /\ ret' = Ret("into_iter", None, None)
    /\ absret' = None
    /\ NoOrder
    /\ UNCHANGED <<head, tail, node, rc, live, panic, abs, pushes, pops,
                   excl, target, leaked, fronts, backs, calls, noneSeen,
                   fifth,
                   third, cursor>>

SecondIterNextAct ==
    /\ target = "second" /\ phase = "iter"
    /\ calls < MaxCalls
    /\ LET r == SecondIterNext(second)
       IN  /\ second' = r.st
           /\ ret' = Ret("next", r.val, None)
           /\ fronts' = IF r.val # None THEN Append(fronts, r.val) ELSE fronts
           /\ noneSeen' = (noneSeen \/ r.val = None)
    /\ abs' = AbsPopFront(abs)
    /\ absret' = AbsFront(abs)
    /\ calls' = calls + 1
    /\ NoOrder /\ IterFrame
    /\ UNCHANGED <<head, tail, node, rc, live, panic, backs, fifth,
                   third, cursor>>

\* A list is built with pushes and pops, then consumed through its IntoIter.
NextIter ==
    \/ \E e \in Vals : target = "fourth" /\ PushFrontPlain(e)
    \/ \E e \in Vals : target = "fourth" /\ PushBackPlain(e)
    \/ target = "fourth" /\ PopFrontPlain
    \/ target = "fourth" /\ PopBackPlain
    \/ IntoIterAct
    \/ IterNextAct
    \/ IterNextBackAct
    \/ \E e \in Vals : target = "second" /\ SecondPushAct(e)
    \/ target = "second" /\ SecondPopAct
    \/ SecondIntoIterAct
    \/ SecondIterNextAct

SpecIter == InitMut /\ [][NextIter]_vars

\* Runs in which the caller may forget guards, turn the list into its
\* IntoIter, consume that from either end, and drop the list or the
\* IntoIter at any point.
NextTeardown ==
    \/ \E e \in Vals : PushFrontPlain(e)
    \/ \E e \in Vals : PushBackPlain(e)
    \/ PopFrontPlain
    \/ PopBackPlain
    \/ phase = "list" /\ PeekFrontAct
    \/ phase = "list" /\ PeekBackAct
    \/ \E n \in Ids : phase = "list" /\ ReleaseAct(n)
    \/ \E n \in Ids : ForgetAct(n)
    \/ IntoIterAct
    \/ IterNextAct
    \/ IterNextBackAct
    \/ DropAct

SpecTeardown == Init /\ [][NextTeardown]_vars

\* Runs of pushes and pops in which the caller keeps, for a pop that
\* follows a push at once, the list as it was before that push (orig), the
\* value pushed (fronts) and the end it was pushed at (pushDisc).
TripFrame == UNCHANGED <<target, phase, leaked, backs, calls, noneSeen,
                         second, fifth, third, cursor, pushes, pops, excl,
                         log, logBefore>>

Remember(end, e) ==
    /\ orig' = <<Cur>>
    /\ fronts' = <<e>>
    /\ pushDisc' = end
    /\ popDisc' = "none"

Recall(end) ==
    /\ popDisc' = end
    /\ IF ret.op \in {"push_front", "push_back"}
       THEN UNCHANGED <<orig, fronts, pushDisc>>
       ELSE orig' = <<>> /\ fronts' = <<>> /\ pushDisc' = "none"

TripPushFront(e) == PushFrontCall(e) /\ Remember("front", e) /\ TripFrame
TripPushBack(e) == PushBackCall(e) /\ Remember("back", e) /\ TripFrame
TripPopFront == PopFrontCall /\ Recall("front") /\ TripFrame
TripPopBack == PopBackCall /\ Recall("back") /\ TripFrame

NextTrip ==
    \/ \E e \in Vals : TripPushFront(e)
    \/ \E e \in Vals : TripPushBack(e)
    \/ TripPopFront
    \/ TripPopBack

SpecTrip == Init /\ [][NextTrip]_vars

\* ------------------------------------------------------------- fifth::List calls

\* Each call on the queue of module fifth is made together with its
\* counterpart on a list of module fourth that serves as the reference:
\* push with push_back, pop with pop_front.  ret is what the queue
\* returned, absret what the reference returned.
FifthPushAct(e) ==
    /\ target = "fifth" /\ panic = "none" /\ ~fifth.ub
    /\ Cardinality(fifth.live) < MaxNodes
    /\ Cardinality(live) < MaxNodes
    /\ fifth' = FifthPush(fifth, e)
    /\ Install(PushBack(Cur, e))
    /\ ret' = Ret("push", None, None)
    /\ absret' = None
    /\ abs' = Append(abs, e)
    /\ CountPush /\ PushGhost("back", e, abs)
    /\ UNCHANGED <<excl, target, phase, leaked, orig, fronts, backs, calls,
                   noneSeen, second,
                   third, cursor>>

FifthPopAct ==
    /\ target = "fifth" /\ panic = "none" /\ ~fifth.ub
    /\ LET r == FifthPop(fifth)
           q == PopFront(Cur)
       IN  /\ fifth' = r.st
           /\ Install(q.st)
           /\ ret' = Ret("pop", r.val, None)
           /\ absret' = q.val
    /\ abs' = AbsPopFront(abs)
    /\ CountPop /\ PopGhost("front")
    /\ UNCHANGED <<excl, target, phase, leaked, orig, fronts, backs, calls,
                   noneSeen, second,
                   third, cursor>>

InitFifth == InitList /\ target = "fifth"

NextFifth ==
    \/ \E e \in Vals : FifthPushAct(e)
    \/ FifthPopAct

SpecFifth == InitFifth /\ [][NextFifth]_vars

\* ------------------------------------------------------------- the stacks

\* Runs of push and pop on one stack, a first::List or a second::List
\* according to target (the variable second holds it), with the push-order
\* log kept.
StackFrame == FourthIdle /\ NoIter /\ UNCHANGED excl

FirstPushAct(e) ==
    /\ target = "first"
    /\ Cardinality(second.live) < MaxNodes
    /\ second' = FirstPush(second, e)
    /\ ret' = Ret("push", None, None)
    /\ abs' = <<e>> \o abs
    /\ absret' = None
    /\ CountPush /\ PushGhost("front", e, abs) /\ StackFrame

FirstPopAct ==
    /\ target = "first"
    /\ LET r == FirstPop(second)
       IN  /\ second' = r.st
           /\ ret' = Ret("pop", r.val, None)
    /\ abs' = AbsPopFront(abs)
    /\ absret' = AbsFront(abs)
    /\ CountPop /\ PopGhost("front") /\ StackFrame

SecondPushOrd(e) ==
    /\ target = "second"
    /\ Cardinality(second.live) < MaxNodes
    /\ second' = SecondPush(second, e)
    /\ ret' = Ret("push", None, None)
    /\ abs' = <<e>> \o abs
    /\ absret' = None
    /\ CountPush /\ PushGhost("front", e, abs) /\ StackFrame

SecondPopOrd ==
    /\ target = "second"
    /\ LET r == SecondPop(second)
       IN  /\ second' = r.st
           /\ ret' = Ret("pop", r.val, None)
    /\ abs' = AbsPopFront(abs)
    /\ absret' = AbsFront(abs)
    /\ CountPop /\ PopGhost("front") /\ StackFrame

InitStack == InitList /\ target \in {"first", "second"}

NextStack ==
    \/ \E e \in Vals : FirstPushAct(e)
    \/ FirstPopAct
    \/ \E e \in Vals : SecondPushOrd(e)
    \/ SecondPopOrd

SpecStack == InitStack /\ [][NextStack]_vars

\* ------------------------------------------------------------- third::List calls

\* What a call on a third::List leaves alone.
ThirdFrame == UNCHANGED <<head, tail, node, rc, live, panic, leaked, fifth,
                          second, target, abs, pushes, pops, excl,
                          pushDisc, popDisc, log, logBefore>>

\* The handle the caller binds the next list to.
FreeHandle == CHOOSE d \in Handles :
                /\ third.lists[d] = Absent
                /\ \A g \in Handles : third.lists[g] = Absent => d <= g
HasFree == \E d \in Handles : third.lists[d] = Absent
Held == {h \in Handles : third.lists[h] # Absent}

\* What a call on a third::List reports: its name, the value it returned
\* (head only) and the handle the list it returned is bound to.
ThirdRet(op, v, d) == [op |-> op, val |-> v, unlinked |-> d]

ThirdNewAct ==
    /\ target = "third" /\ phase = "list" /\ HasFree
    /\ third' = [third EXCEPT !.lists[FreeHandle] = None]
    /\ ret' = ThirdRet("new", None, FreeHandle)
    /\ absret' = None
    /\ ThirdFrame /\ NoIter /\ UNCHANGED cursor

ThirdPrependAct(h, e) ==
    /\ target = "third" /\ phase = "list" /\ HasFree
    /\ h \in Held
    /\ Cardinality(third.live) < MaxNodes
    /\ LET r == ThirdPrepend(third, third.lists[h], e)
       IN  third' = [r.st EXCEPT !.lists[FreeHandle] = r.head]
    /\ ret' = ThirdRet("prepend", None, FreeHandle)
    /\ absret' = None
    /\ ThirdFrame /\ NoIter /\ UNCHANGED cursor

ThirdTailAct(h) ==
    /\ target = "third" /\ phase = "list" /\ HasFree
    /\ h \in Held
    /\ LET r == ThirdTail(third, third.lists[h])
       IN  third' = [r.st EXCEPT !.lists[FreeHandle] = r.head]
    /\ ret' = ThirdRet("tail", None, FreeHandle)
    /\ absret' = None
    /\ ThirdFrame /\ NoIter /\ UNCHANGED cursor

ThirdHeadAct(h) ==
    /\ target = "third" /\ phase = "list"
    /\ h \in Held
    /\ ret' = ThirdRet("head", ThirdHead(third, third.lists[h]), h)
    /\ absret' = None
    /\ ThirdFrame /\ NoIter /\ UNCHANGED <<third, cursor>>

\* The list bound to h goes out of scope: `self.head.take()`, then the loop.
\* absret records how many nodes the drop released.
ThirdDropAct(h) ==
    /\ target = "third" /\ phase = "list"
    /\ h \in Held
    /\ third' = [ThirdDrop(third, third.lists[h]) EXCEPT !.lists[h] = Absent]
    /\ ret' = ThirdRet("drop", None, h)
    /\ absret' = Cardinality(third.live) - Cardinality(third'.live)
    /\ ThirdFrame /\ NoIter /\ UNCHANGED cursor

InitThird == InitList /\ target = "third"

NextThird ==
    \/ ThirdNewAct
    \/ \E h \in Handles, e \in ThirdVals : ThirdPrependAct(h, e)
    \/ \E h \in Handles : ThirdTailAct(h)
    \/ \E h \in Handles : ThirdHeadAct(h)
    \/ \E h \in Handles : ThirdDropAct(h)

SpecThird == InitThird /\ [][NextThird]_vars

\* ------------------------------------------------------------- Iter and IterMut

\* No borrowing iterator: its `next` field, and the nodes the references it
\* has yielded so far point into.
NoCursor == [next |-> None, given |-> <<>>]

\* second::List::iter: `Iter { next: self.head.as_deref() }`.
SecondIter(L) == L.head

\* Iter::next written without the assignment to self.next.
SecondIterRefStays(L, c) ==
    IF c = None THEN [next |-> None, val |-> None, at |-> None]
    ELSE [next |-> c, val |-> L.node[c].elem, at |-> c]

\* Iter::next of second.rs: `self.next.map(|node| { self.next =
\* node.next.as_deref(); &node.elem })`; at is the node the reference
\* points into.
SecondIterRefNext(L, c) ==
    IF c = None THEN [next |-> None, val |-> None, at |-> None]
    ELSE [next |-> L.node[c].next, val |-> L.node[c].elem, at |-> c]

\* second::List::iter_mut: `IterMut { next: self.head.as_deref_mut() }`.
SecondIterMut(L) == L.head

\* IterMut::next written with the successor's successor as the next node.
SecondIterMutSkips(L, c) ==
    IF c = None THEN [next |-> None, val |-> None, at |-> None]
    ELSE [next |-> IF L.node[c].next = None THEN None
                   ELSE L.node[L.node[c].next].next,
          val |-> L.node[c].elem, at |-> c]

\* IterMut::next: `self.next.take().map(|node| { self.next =
\* node.next.as_deref_mut(); &mut node.elem })`.
SecondIterMutNext(L, c) ==
    IF c = None THEN [next |-> None, val |-> None, at |-> None]
    ELSE [next |-> L.node[c].next, val |-> L.node[c].elem, at |-> c]

\* third::List::iter.
ThirdIter(T, l) == l

\* Iter::next of third.rs.
ThirdIterRefNext(T, c) ==
    IF c = None THEN [next |-> None, val |-> None, at |-> None]
    ELSE [next |-> T.node[c].next, val |-> T.node[c].elem, at |-> c]

\* What a call on a borrowing iterator leaves alone.
BorrowFrame == UNCHANGED <<head, tail, node, rc, live, panic, leaked, fifth,
                           target, pushes, pops, excl, pushDisc, popDisc,
                           log, logBefore, abs, absret>>

\* The iterator after a call of next that returned r; fronts records the
\* values read through the shared references of an Iter (keep).
Advance(r, keep) ==
    /\ cursor' = [next  |-> r.next,
                  given |-> IF r.at = None THEN cursor.given
                            ELSE Append(cursor.given, r.at)]
    /\ ret' = Ret("next", r.val, r.at)
    /\ fronts' = IF keep /\ r.val # None THEN Append(fronts, r.val)
               ELSE fronts
    /\ noneSeen' = (noneSeen \/ r.val = None)
    /\ calls' = calls + 1

\* A new iterator replaces the one the caller held, if any: orig keeps the
\* elements the list had when the first of these iterators borrowed it, and
\* backs the values of the pass before this one if that pass ran to None
\* (kept for an Iter only).
Fresh(c, elems, again, keep) ==
    /\ cursor' = [next |-> c, given |-> <<>>]
    /\ orig' = IF again THEN orig ELSE elems
    /\ backs' = IF again /\ keep /\ noneSeen THEN fronts ELSE <<>>
    /\ fronts' = <<>>
    /\ calls' = 0
    /\ noneSeen' = FALSE

\* `let mut iter = list.iter();` on a second::List.
SecondIterAct ==
    /\ target = "second" /\ phase \in {"list", "iter"} /\ excl = "none"
    /\ Fresh(SecondIter(second),
             SecondElems(second, second.head, MaxNodes + 1), phase = "iter", TRUE)
    /\ phase' = "iter"
    /\ ret' = Ret("iter", None, None)
    /\ BorrowFrame /\ UNCHANGED <<second, third>>

\* `iter.next()` on the Iter of a second::List.
SecondIterRefNextAct ==
    /\ target = "second" /\ phase = "iter" /\ calls < MaxCalls
    /\ Advance(SecondIterRefNext(second, cursor.next), TRUE)
    /\ BorrowFrame /\ UNCHANGED <<second, third, phase, orig, backs>>

\* `let mut iter = list.iter_mut();`: the references of an earlier pass
\* are dead by now.
SecondIterMutAct ==
    /\ target = "second" /\ phase \in {"list", "iter_mut"} /\ excl = "none"
    /\ Fresh(SecondIterMut(second),
             SecondElems(second, second.head, MaxNodes + 1),
             phase = "iter_mut", FALSE)
    /\ phase' = "iter_mut"
    /\ ret' = Ret("iter_mut", None, None)
    /\ BorrowFrame /\ UNCHANGED <<second, third>>

\* `iter.next()` on the IterMut.
SecondIterMutNextAct ==
    /\ target = "second" /\ phase = "iter_mut" /\ calls < MaxCalls
    /\ Advance(SecondIterMutNext(second, cursor.next), FALSE)
    /\ BorrowFrame /\ UNCHANGED <<second, third, phase, orig, backs>>

\* `*value = v` through one of the references this pass has yielded, the
\* one into node n; orig follows the write at the place of the reference
\* in the pass.
IterMutWriteAct(n, v) ==
    /\ target = "second" /\ phase = "iter_mut"
    /\ \E i \in 1..Len(cursor.given) : cursor.given[i] = n
    /\ second' = [second EXCEPT !.node[n].elem = v]
    /\ LET at == CHOOSE i \in 1..Len(cursor.given) : cursor.given[i] = n
       IN  orig' = IF at <= Len(orig) THEN [orig EXCEPT ![at] = v] ELSE orig
    /\ ret' = Ret("set", v, n)
    /\ BorrowFrame
    /\ UNCHANGED <<third, cursor, phase, fronts, backs, calls, noneSeen>>

\* The iterator and the references it yielded go out of scope.
IterEndAct ==
    /\ target \in {"second", "third"} /\ phase \in {"iter", "iter_mut"}
    /\ phase' = "list"
    /\ cursor' = NoCursor
    /\ orig' = <<>> /\ fronts' = <<>> /\ backs' = <<>>
    /\ calls' = 0 /\ noneSeen' = FALSE
    /\ ret' = Ret("end", None, None)
    /\ BorrowFrame /\ UNCHANGED <<second, third>>

\* `list = list.prepend(e);`: the list that was bound to the name is
\* dropped once the new one is built.
ThirdChainPrependAct(e) ==
    /\ target = "third" /\ phase = "list"
    /\ Cardinality(third.live) < MaxNodes
    /\ LET l == third.lists[1]
           r == ThirdPrepend(third, l, e)
       IN  third' = [ThirdDrop(r.st, l) EXCEPT !.lists[1] = r.head]
    /\ ret' = ThirdRet("prepend", None, 1)
    /\ absret' = None
    /\ ThirdFrame /\ NoIter /\ UNCHANGED cursor

\* `list = list.tail();`.
ThirdChainTailAct ==
    /\ target = "third" /\ phase = "list"
    /\ LET l == third.lists[1]
           r == ThirdTail(third, l)
       IN  third' = [ThirdDrop(r.st, l) EXCEPT !.lists[1] = r.head]
    /\ ret' = ThirdRet("tail", None, 1)
    /\ absret' = None
    /\ ThirdFrame /\ NoIter /\ UNCHANGED cursor

\* `let mut iter = list.iter();` on a third::List.
ThirdIterAct ==
    /\ target = "third" /\ phase \in {"list", "iter"}
    /\ Fresh(ThirdIter(third, third.lists[1]),
             ThirdElems(third, third.lists[1], MaxNodes + 1), phase = "iter", TRUE)
    /\ phase' = "iter"
    /\ ret' = Ret("iter", None, None)
    /\ BorrowFrame /\ UNCHANGED <<second, third>>

\* `iter.next()` on the Iter of a third::List.
ThirdIterRefNextAct ==
    /\ target = "third" /\ phase = "iter" /\ calls < MaxCalls
    /\ Advance(ThirdIterRefNext(third, cursor.next), TRUE)
    /\ BorrowFrame /\ UNCHANGED <<second, third, phase, orig, backs>>

\* push of a second::List without the call counters.
SecondPushPlain(e) ==
    /\ phase = "list" /\ excl = "none"
    /\ Cardinality(second.live) < MaxNodes
    /\ second' = SecondPush(second, e)
    /\ ret' = Ret("push", None, None)
    /\ abs' = <<e>> \o abs
    /\ absret' = None
    /\ NoCount /\ NoOrder /\ FourthIdle /\ NoIter

InitBorrow == InitList /\ target \in {"second", "third"}

NextBorrowSecond ==
    \/ \E e \in Vals : SecondPushPlain(e)
    \/ SecondIterAct
    \/ SecondIterRefNextAct
    \/ SecondIterMutAct
    \/ SecondIterMutNextAct
    \/ \E n \in Ids, v \in Vals : IterMutWriteAct(n, v)
    \/ IterEndAct

NextBorrowThird ==
    \/ \E e \in Vals : ThirdChainPrependAct(e)
    \/ ThirdChainTailAct
    \/ ThirdIterAct
    \/ ThirdIterRefNextAct
    \/ IterEndAct

NextBorrow ==
    \/ target = "second" /\ NextBorrowSecond
    \/ target = "third" /\ NextBorrowThird

SpecBorrow == InitBorrow /\ [][NextBorrow]_vars

\* ------------------------------------------------------------- observations

\* The nodes met by following next from n, at most k of them.
RECURSIVE WalkNext(_, _)
WalkNext(n, k) ==
    IF n = None \/ k = 0 THEN <<>>
    ELSE <<n>> \o WalkNext(node[n].next, k - 1)

\* The nodes met by following prev from n, at most k of them.
RECURSIVE WalkPrev(_, _)
WalkPrev(n, k) ==
    IF n = None \/ k = 0 THEN <<>>
    ELSE <<n>> \o WalkPrev(node[n].prev, k - 1)

\* One step more than there are slots: a walk this long has met a node twice.
Fuel == MaxNodes + 1

Reverse(s) == [i \in 1..Len(s) |-> s[Len(s) + 1 - i]]
ElemsOf(w) == [i \in 1..Len(w) |-> node[w[i]].elem]
IsPop == ret.op \in {"pop_front", "pop_back"}
NewestOf(s) == IF s = <<>> THEN None ELSE s[Len(s)]
OldestOf(s) == IF s = <<>> THEN None ELSE Head(s)

\* ------------------------------------------------------------- claims

\* C1: under every sequence of push_front, push_back, pop_front and pop_back
\* from new(), each call returns what the abstract sequence returns
\* (push_front prepends, push_back appends, pop_front takes the first,
\* pop_back the last, a pop of the empty sequence gives None), and the
\* payloads met by following next from head are the abstract sequence.
C1_RefinesSequence ==
    /\ ret.val = absret
    /\ ElemsOf(WalkNext(head, Fuel)) = abs

\* C1 witness: pushes and pops at both ends have left <<2, 1>> and the last
\* pop_front returned 1.
C1_Witness ==
    /\ ret.op = "pop_front" /\ ret.val = 1
    /\ abs = <<2, 1>> /\ pushes = 4 /\ pops = 2

\* C2: in a run that uses only push_front and pop_front (or only push_back
\* and pop_back), every pop returns the value pushed last among those not yet
\* popped, and None when there is none.
C2_Lifo ==
    /\ (ret.op = "pop_front" /\ pushDisc \in {"none", "front"} /\ popDisc = "front")
          => ret.val = NewestOf(logBefore)
    /\ (ret.op = "pop_back" /\ pushDisc \in {"none", "back"} /\ popDisc = "back")
          => ret.val = NewestOf(logBefore)

\* C2 witness: after push_front(2), push_front(2), push_front(1), pop_front
\* returned 1 and the two older values are still to come.
C2_Witness ==
    /\ ret.op = "pop_front" /\ pushDisc = "front" /\ popDisc = "front"
    /\ logBefore = <<2, 2, 1>> /\ ret.val = 1 /\ log = <<2, 2>>

\* C3: values pushed at one end and popped at the other come out oldest
\* first, and once they are all out a pop at either end returns None.
C3_Fifo ==
    /\ (ret.op = "pop_back" /\ pushDisc = "front" /\ popDisc = "back")
          => ret.val = OldestOf(logBefore)
    /\ (ret.op = "pop_front" /\ pushDisc = "back" /\ popDisc = "front")
          => ret.val = OldestOf(logBefore)
    /\ (IsPop /\ pushDisc \in {"front", "back"} /\ logBefore = <<>>)
          => ret.val = None

\* C3 witness: after push_front(1), push_front(2), the second pop_back
\* returned 2 (the first had returned 1) and the list is empty.
C3_Witness ==
    /\ ret.op = "pop_back" /\ pushDisc = "front" /\ popDisc = "back"
    /\ logBefore = <<2>> /\ ret.val = 2 /\ abs = <<>>

\* The results of the six queries of an end, as the calls would return them
\* in the current state.
EndCalls == {PopFront(Cur), PopBack(Cur), PeekFront(Cur), PeekBack(Cur),
             PeekFrontMut(Cur), PeekBackMut(Cur)}

\* C4: on an empty list (fresh, or emptied by pops) pop_front, pop_back,
\* peek_front, peek_back, peek_front_mut and peek_back_mut each return None,
\* take no fatal path and leave the list as it is, with head and tail None;
\* the list being left unchanged, the same holds for any number of such
\* calls in a row.
C4_EmptyIsAbsence ==
    abs = <<>> =>
        /\ panic = "none"
        /\ head = None /\ tail = None
        /\ \A r \in EndCalls : r.val = None /\ r.st = Cur

\* C4 witness: a pop_back on a list that pops had emptied returned None.
C4_Witness ==
    /\ abs = <<>> /\ ret.op = "pop_back" /\ ret.val = None
    /\ pops = 2 /\ pushes = 2

\* C5: the pops that returned a value never outnumber the pushes, and
\* pop_front would return None exactly when pop_back would, which is exactly
\* when as many values were popped as were pushed.
C5_Exhaustion ==
    /\ pops <= pushes
    /\ MutCallOK =>
         /\ (PopFront(Cur).val = None) <=> (PopBack(Cur).val = None)
         /\ (PopFront(Cur).val = None) <=> (pops = pushes)

\* C5 witness: the pop that takes the last of three values, after pushes
\* and pops at both ends.
C5_Witness ==
    /\ pops = pushes /\ pushes = 3
    /\ ret.op = "pop_back" /\ ret.val # None
    /\ PopFront(Cur).val = None

\* C6: head is None if and only if tail is None, and they are None exactly
\* when no node is in the list.
C6_HeadTailEmpty ==
    /\ (head = None) <=> (tail = None)
    /\ (head = None) <=> (live = {})
    /\ (live = {}) <=> (abs = <<>>)

\* C6 witness: the pop that empties the list has cleared head and tail.
C6_Witness ==
    /\ IsPop /\ ret.val # None
    /\ head = None /\ tail = None /\ live = {}

\* C7: for all nodes A and B, A.next refers to B if and only if B.prev refers
\* to A.
C7_LinksMutual ==
    \A a \in live : \A b \in Ids :
        /\ (node[a].next = b) <=> (b \in live /\ node[b].prev = a)
        /\ (node[a].prev = b) <=> (b \in live /\ node[b].next = a)

\* C7 witness: two linked nodes are left after a pop took a third.
C7_Witness ==
    /\ IsPop /\ ret.val # None
    /\ \E a, b \in live : a # b /\ node[a].next = b /\ node[b].prev = a

\* No node occurs twice in the walk w.
NoRepeat(w) == \A i, j \in 1..Len(w) : w[i] = w[j] => i = j

\* C8: on a non-empty list, following next from head meets no node twice
\* and ends at tail, and following prev from tail meets the same nodes in
\* reverse order.
C8_Acyclic ==
    head # None =>
        LET w == WalkNext(head, Fuel)
        IN  /\ NoRepeat(w)
            /\ w[Len(w)] = tail
            /\ WalkPrev(tail, Fuel) = Reverse(w)
            /\ {w[i] : i \in 1..Len(w)} = live

\* C8 witness: a walk over three nodes, after a push_back.
C8_Witness ==
    /\ ret.op = "push_back"
    /\ Len(WalkNext(head, Fuel)) = 3
    /\ WalkNext(head, Fuel)[3] = tail

\* The owning references to node n, by where they are held.
InNext(n) == {m \in live : node[m].next = n}
InPrev(n) == {m \in live : node[m].prev = n}
ByHead(n) == IF head = n THEN 1 ELSE 0
ByTail(n) == IF tail = n THEN 1 ELSE 0
ByNodes(n) == Cardinality(InNext(n)) + Cardinality(InPrev(n))

\* C9: every node in the list has exactly two owning references: an
\* interior node its predecessor's next and its successor's prev; a boundary
\* node of a list of two or more one neighbour link and one of head and
\* tail; the node of a one-element list head and tail and no node link; no
\* node is referred to by itself.
C9_TwoOwners ==
    \A n \in live :
        /\ rc[n] = 2
        /\ ByHead(n) + ByTail(n) + ByNodes(n) = 2
        /\ n \notin InNext(n) \cup InPrev(n)
        /\ IF Cardinality(live) = 1
           THEN head = n /\ tail = n /\ ByNodes(n) = 0
           ELSE IF head = n \/ tail = n
           THEN ByHead(n) + ByTail(n) = 1 /\ ByNodes(n) = 1
           ELSE /\ node[n].prev # None /\ InNext(n) = {node[n].prev}
                /\ node[n].next # None /\ InPrev(n) = {node[n].next}

\* C9 witness: a list of three nodes, one of them interior, after a
\* push_front.
C9_Witness ==
    /\ ret.op = "push_front" /\ Cardinality(live) = 3
    /\ \E n \in live : head # n /\ tail # n /\ rc[n] = 2

\* C10: no call takes the fatal path; a pop that unlinked a node returns
\* its payload, and no reference to that node is left in head, tail or any
\* node's next or prev.
C10_UniqueAtUnwrap ==
    /\ panic = "none"
    /\ (IsPop /\ ret.unlinked # None) =>
         /\ ret.val # None
         /\ ret.unlinked \notin live /\ rc[ret.unlinked] = 0
         /\ head # ret.unlinked /\ tail # ret.unlinked
         /\ \A m \in Ids : node[m].next # ret.unlinked /\ node[m].prev # ret.unlinked

\* C10 witness: pop_front unlinked the head of a list of three.
C10_Witness ==
    /\ ret.op = "pop_front" /\ ret.unlinked # None /\ ret.val # None
    /\ Cardinality(live) = 2 /\ panic = "none"

\* The lists S and T have the same head, tail, nodes, owners, links and
\* payloads (the borrow flags apart).
SameList(S, T) ==
    /\ S.head = T.head /\ S.tail = T.tail
    /\ S.live = T.live /\ S.rc = T.rc
    /\ \A n \in Ids : /\ S.node[n].elem = T.node[n].elem
                      /\ S.node[n].next = T.node[n].next
                      /\ S.node[n].prev = T.node[n].prev

\* C11: peek_front and peek_back leave head, tail, every link, every payload
\* and the number of elements as they were; on a non-empty list the value
\* peek_front yields is the value pop_front returns right after it (once
\* the Ref is dropped), likewise peek_back and pop_back, and only the pop
\* takes an element away.
C11_PeekPure ==
    /\ SharedCallOK =>
         \A r \in {PeekFront(Cur), PeekBack(Cur)} :
             SameList(r.st, Cur) /\ r.st.panic = "none"
    /\ (MutCallOK /\ abs # <<>>) =>
         LET pf == PeekFront(Cur)
             pb == PeekBack(Cur)
             qf == PopFront(ReleaseRef(pf.st, head))
             qb == PopBack(ReleaseRef(pb.st, tail))
         IN  /\ pf.val = abs[1] /\ qf.val = pf.val
             /\ pb.val = abs[Len(abs)] /\ qb.val = pb.val
             /\ Cardinality(pf.st.live) = Len(abs)
             /\ Cardinality(pb.st.live) = Len(abs)
             /\ Cardinality(qf.st.live) = Len(abs) - 1
             /\ Cardinality(qb.st.live) = Len(abs) - 1

\* C11 witness: peek_front on <<2, 1>> yielded 2 and the list still holds
\* both elements.
C11_Witness ==
    /\ ret.op = "peek_front" /\ ret.val = 2
    /\ abs = <<2, 1>> /\ Cardinality(live) = 2
    /\ node[head].borrow = 1

\* The list with every guard of node n given back.
Released(S, n) ==
    IF S.node[n].borrow < 0 THEN ReleaseMut(S, n) ELSE ReleaseRef(S, n)

\* The nodes other than n, and the list's own fields, are the same in S
\* and T, and so are n's links.
SameButElem(S, T, n) ==
    /\ S.head = T.head /\ S.tail = T.tail
    /\ S.live = T.live /\ S.rc = T.rc
    /\ \A m \in Ids : /\ S.node[m].next = T.node[m].next
                      /\ S.node[m].prev = T.node[m].prev
                      /\ m # n => S.node[m].elem = T.node[m].elem

\* C12: a value v written through the exclusive borrow of a mutable peek
\* replaces the payload of the boundary node of that end and nothing else:
\* the written node is the head after peek_front_mut (the tail after
\* peek_back_mut, the head after second::List::peek_mut); every other
\* payload, every link, head and tail are as before; and once the borrow is
\* given back, the peek at that end and the pop at that end both return v.
C12_WriteThroughPeekMut ==
    [][ /\ \A n \in Ids, v \in Vals :
             WriteAct(n, v) =>
               LET A == Released(Cur', n)
               IN  /\ n = (IF excl = "front" THEN head ELSE tail)
                   /\ SameButElem(Cur, Cur', n)
                   /\ node'[n].elem = v
                   /\ excl = "front" =>
                        PeekFront(A).val = v /\ PopFront(A).val = v
                   /\ excl = "back" =>
                        PeekBack(A).val = v /\ PopBack(A).val = v
        /\ \A n \in Ids, v \in Vals :
             SecondWriteAct(n, v) =>
               /\ n = second.head
               /\ second'.head = second.head /\ second'.live = second.live
               /\ \A m \in Ids :
                    /\ second'.node[m].next = second.node[m].next
                    /\ m # n => second'.node[m].elem = second.node[m].elem
               /\ SecondPeek(second') = v
               /\ SecondPop(second').val = v
      ]_vars

\* C12 witness: 2 was written through peek_front_mut over the first element
\* of a two-element list whose last element is 1.
C12_Witness ==
    /\ target = "fourth" /\ ret.op = "write" /\ excl = "front"
    /\ abs = <<2, 1>>
    /\ node[head].elem = 2 /\ node[tail].elem = 1 /\ head # tail

\* The borrow flags too are the same in S and T.
SameFlags(S, T) == \A n \in Ids : S.node[n].borrow = T.node[n].borrow

\* C13: peek_front_mut (peek_back_mut) called while a borrow of the head
\* (tail) node, shared or exclusive, is outstanding is fatal at that call:
\* it ends in the RefCell's "already borrowed" fault, returns no value,
\* hands out no guard, and leaves the list, its nodes and their borrow flags
\* as they were.
C13_AliasingFault ==
    /\ (panic = "none" /\ MutCallOK) =>
         /\ (head # None /\ node[head].borrow # 0) =>
              LET r == PeekFrontMut(Cur)
              IN  /\ r.st.panic = "already borrowed" /\ r.val = None
                  /\ SameList(r.st, Cur) /\ SameFlags(r.st, Cur)
         /\ (tail # None /\ node[tail].borrow # 0) =>
              LET r == PeekBackMut(Cur)
              IN  /\ r.st.panic = "already borrowed" /\ r.val = None
                  /\ SameList(r.st, Cur) /\ SameFlags(r.st, Cur)
    /\ (ret.op \in {"peek_front_mut", "peek_back_mut"} /\ panic # "none") =>
         /\ panic = "already borrowed"
         /\ ret.val = None /\ excl = "none"
         /\ ElemsOf(WalkNext(head, Fuel)) = abs
         /\ \A n \in live : node[n].borrow = leaked[n]

\* C13 witness: peek_front_mut was called on <<1, 2>> while a forgotten Ref
\* from peek_front still borrowed the head, and ended in the fault.
C13_Witness ==
    /\ ret.op = "peek_front_mut" /\ panic = "already borrowed"
    /\ abs = <<1, 2>> /\ leaked[head] = 1 /\ node[head].borrow = 1

\* The elements the iterator still holds, front to back.
Remaining == ElemsOf(WalkNext(head, Fuel))
IsIterCall == phase = "iter" /\ ret.op \in {"next", "next_back"}

\* C14: every next returned what pop_front returns on the sequence the
\* iterator held before the call (its first element, None if it held none),
\* every next_back what pop_back returns (its last element), and the
\* iterator then holds that sequence without the element returned.
C14_IterAsPops ==
    (target = "fourth" /\ IsIterCall) =>
        /\ panic = "none"
        /\ ret.val = absret
        /\ Remaining = abs
        /\ ret.op = "next" =>
             /\ fronts # <<>> => fronts[1] = orig[1]
             /\ absret # None => absret = fronts[Len(fronts)]
        /\ ret.op = "next_back" =>
             /\ backs # <<>> => backs[1] = orig[Len(orig)]
             /\ absret # None => absret = backs[Len(backs)]

\* C14 witness: on <<2, 1, 1>> next gave 2, next_back gave 1, and the third
\* call, next, gave the middle 1.
C14_Witness ==
    /\ target = "fourth" /\ phase = "iter"
    /\ orig = <<2, 1, 1>> /\ calls = 3
    /\ fronts = <<2, 1>> /\ backs = <<1>>
    /\ ret.op = "next" /\ ret.val = 1

Min(a, b) == IF a < b THEN a ELSE b

\* C15: over any interleaving of next and next_back on the IntoIter of a
\* list of n elements, the values next returned in call order, the elements
\* still held, and the values next_back returned in reverse call order make
\* up the original sequence; a value was returned by each of the first n
\* calls and by no later call, so that after n calls the returned values
\* alone make up the original sequence.
C15_EachElementOnce ==
    (target = "fourth" /\ phase = "iter") =>
        /\ fronts \o Remaining \o Reverse(backs) = orig
        /\ Len(fronts) + Len(backs) = Min(calls, Len(orig))
        /\ calls >= Len(orig) => fronts \o Reverse(backs) = orig
        /\ IsIterCall => (ret.val # None <=> calls <= Len(orig))

\* C15 witness: <<1, 2, 2>> consumed by next_back, next, next_back, and a
\* fourth call that returned None.
C15_Witness ==
    /\ target = "fourth" /\ phase = "iter"
    /\ orig = <<1, 2, 2>> /\ calls = 4
    /\ fronts = <<1>> /\ backs = <<2, 2>>
    /\ ret.op = "next" /\ ret.val = None

\* C16: once next or next_back of a fourth::IntoIter, or next of a
\* second::IntoIter, has returned None, every later call of either returns
\* None and is not fatal.
C16_ExhaustionPermanent ==
    [][ (phase = "iter" /\ noneSeen /\ calls' = calls + 1) =>
            (ret'.val = None /\ panic' = "none") ]_vars

\* C16 witness: after next had returned None on an exhausted iterator over
\* <<1, 2>>, next_back returned None as well.
C16_Witness ==
    /\ target = "fourth" /\ phase = "iter"
    /\ orig = <<1, 2>> /\ calls = 4 /\ noneSeen
    /\ fronts = <<1>> /\ backs = <<2>>
    /\ ret.op = "next_back" /\ ret.val = None

\* C17: when head and tail of the iterator's list are the same node, next
\* and next_back alike return that node's element and leave head and tail
\* None and no node alive, and the call made after it in either direction
\* returns None.
C17_LastElement ==
    (target = "fourth" /\ phase = "iter" /\ panic = "none"
       /\ head # None /\ head = tail) =>
        \A r \in {IterNext(Cur), IterNextBack(Cur)} :
            /\ r.val = node[head].elem /\ <<r.val>> = abs
            /\ r.st.panic = "none"
            /\ r.st.head = None /\ r.st.tail = None /\ r.st.live = {}
            /\ IterNext(r.st).val = None
            /\ IterNextBack(r.st).val = None

\* C17 witness: of <<1, 1, 2>> next took the first 1 and next_back the 2;
\* the third call, next_back, returned the remaining 1 and left the list
\* empty.
C17_Witness ==
    /\ target = "fourth" /\ phase = "iter"
    /\ orig = <<1, 1, 2>> /\ calls = 3
    /\ fronts = <<1>> /\ backs = <<2, 1>>
    /\ ret.op = "next_back" /\ ret.val = 1
    /\ head = None /\ tail = None /\ live = {}

\* The positions, front to back, of the nodes of the list that are borrowed.
BorrowedAt(w) == {i \in 1..Len(w) : node[w[i]].borrow # 0}
FirstOf(I) == CHOOSE i \in I : \A j \in I : i <= j

\* C18 as claimed: teardown is never fatal, and ends either with the list
\* empty or stopped at a node that is still referenced, that node and the
\* nodes after it being left as they were.
C18_StopsEarlyNeverFatal ==
    phase = "dropped" =>
        /\ panic = "none"
        /\ \/ head = None /\ tail = None /\ live = {}
           \/ /\ head \in live /\ node[head].borrow # 0
              /\ live = {WalkNext(head, Fuel)[i] :
                             i \in 1..Len(WalkNext(head, Fuel))}

\* C18: teardown pops from the front until pop_front returns None and has
\* no early stop.  With no node of the list borrowed it ends with head and
\* tail None and every node released, and is not fatal.  With a node still
\* borrowed it does not stop short of that node: the pop_front that
\* reaches the first such node (as the node it removes or as that node's
\* successor) ends in the RefCell's "already borrowed" fault, with head
\* taken and the nodes before the one being removed released.
C18_TeardownPopsAll ==
    /\ (phase = "list" /\ panic = "none" /\ MutCallOK) =>
         LET w == WalkNext(head, Fuel)
             D == DropList(Cur)
         IN  IF BorrowedAt(w) = {}
             THEN /\ D.panic = "none"
                  /\ D.head = None /\ D.tail = None /\ D.live = {}
                  /\ \A n \in Ids : D.rc[n] = 0
             ELSE LET k == FirstOf(BorrowedAt(w))
                      from == IF k = 1 THEN 1 ELSE k - 1
                  IN  /\ D.panic = "already borrowed"
                      /\ D.head = None
                      /\ D.live = {w[i] : i \in from..Len(w)}
    /\ phase = "dropped" =>
         IF \A n \in Ids : leaked[n] = 0
         THEN panic = "none" /\ head = None /\ tail = None /\ live = {}
         ELSE panic = "none" <=> \A n \in live : node[n].borrow = 0

\* C18 witness: a list of three elements was dropped and no node is left.
C18_Witness ==
    /\ phase = "dropped" /\ panic = "none"
    /\ abs = <<1, 2, 2>>
    /\ head = None /\ tail = None /\ live = {}

\* The elements of the queue of module fifth, head first.
FifthElems == SecondElems(fifth, fifth.head, Fuel)

OwnersIn(S, n) ==
    (IF S.head = n THEN 1 ELSE 0) + (IF S.tail = n THEN 1 ELSE 0)
    + Cardinality({m \in S.live : S.node[m].next = n})
    + Cardinality({m \in S.live : S.node[m].prev = n})

\* What C21 says of the list P that a push at one end made of the current
\* list, b being the boundary node of that end before the push.
PushCounts(P, b, atFront) ==
    LET new == CHOOSE n \in P.live : n \notin live
    IN  /\ P.panic = "none"
        /\ P.live = live \cup {new} /\ new \notin live
        /\ P.rc[new] = 2 /\ OwnersIn(P, new) = 2
        /\ \A m \in live : P.rc[m] = rc[m] /\ OwnersIn(P, m) = OwnersIn(Cur, m)
        /\ b # None =>
             /\ (IF atFront THEN P.head ELSE P.tail) = new
             /\ (IF atFront THEN P.head ELSE P.tail) # b
             /\ (IF atFront THEN P.node[new].next ELSE P.node[new].prev) = b
             /\ (IF atFront THEN P.node[b].prev ELSE P.node[b].next) = new
             /\ (IF atFront THEN node[b].prev ELSE node[b].next) = None
             /\ (IF atFront THEN P.tail = tail ELSE P.head = head)
        /\ b = None => P.head = new /\ P.tail = new

\* C21: a push_front or push_back gives the new node exactly two owning
\* references (strong count 2: head or tail, and the old boundary node's
\* prev or next; head and tail on an empty list) and leaves the count of
\* every node already in the list as it was; the old boundary node is no
\* longer referred to by head (tail) and is referred to by the new node's
\* next (prev).
C21_PushCounts ==
    (panic = "none" /\ MutCallOK /\ Cardinality(live) < MaxNodes) =>
        \A e \in Vals :
            /\ PushCounts(PushFront(Cur, e), head, TRUE)
            /\ PushCounts(PushBack(Cur, e), tail, FALSE)

\* C21 witness: push_back on a two-element list made a third node with
\* two owners, tail and the old tail's next.
C21_Witness ==
    /\ ret.op = "push_back" /\ Cardinality(live) = 3
    /\ rc[tail] = 2 /\ OwnersIn(Cur, tail) = 2
    /\ node[tail].prev # None /\ node[node[tail].prev].next = tail
    /\ \A m \in live : rc[m] = 2

\* The list S seen from the other end: head and tail swapped, and next and
\* prev swapped in every node.
Mirror(S) ==
    [S EXCEPT !.head = S.tail,
              !.tail = S.head,
              !.node = [n \in Ids |-> [S.node[n] EXCEPT !.next = S.node[n].prev,
                                                        !.prev = S.node[n].next]]]

\* Results r and q of a pop or peek agree up to mirroring.
MirrorResult(r, q) ==
    r.val = q.val /\ r.unlinked = q.unlinked /\ q.st = Mirror(r.st)

\* C22: the two ends mirror each other.  From every reachable list, each
\* operation applied to the mirrored list returns what its mirror operation
\* returns on the list itself and yields the mirror of that operation's
\* result; the empty list being its own mirror, a sequence of operations
\* and the mirrored sequence return the same values and end in lists that
\* are each other's reverse.
C22_EndsSymmetric ==
    /\ Mirror(ListNew) = ListNew
    /\ ElemsOf(WalkPrev(tail, Fuel)) = Reverse(ElemsOf(WalkNext(head, Fuel)))
    /\ (panic = "none" /\ MutCallOK) =>
         /\ Cardinality(live) < MaxNodes =>
              \A e \in Vals :
                /\ PushBack(Mirror(Cur), e) = Mirror(PushFront(Cur, e))
                /\ PushFront(Mirror(Cur), e) = Mirror(PushBack(Cur, e))
         /\ MirrorResult(PopFront(Cur), PopBack(Mirror(Cur)))
         /\ MirrorResult(PopBack(Cur), PopFront(Mirror(Cur)))
         /\ MirrorResult(PeekFrontMut(Cur), PeekBackMut(Mirror(Cur)))
         /\ MirrorResult(PeekBackMut(Cur), PeekFrontMut(Mirror(Cur)))
    /\ (panic = "none" /\ SharedCallOK) =>
         /\ MirrorResult(PeekFront(Cur), PeekBack(Mirror(Cur)))
         /\ MirrorResult(PeekBack(Cur), PeekFront(Mirror(Cur)))

\* C22 witness: pop_back on <<1, 2, 1>> returned 1 and left <<1, 2>>, which
\* read from the tail is <<2, 1>>.
C22_Witness ==
    /\ ret.op = "pop_back" /\ ret.val = 1
    /\ ElemsOf(WalkNext(head, Fuel)) = <<1, 2>>
    /\ ElemsOf(WalkPrev(tail, Fuel)) = <<2, 1>>
    /\ pushes = 3 /\ pops = 1

\* The elements seen through the list whose head link is l, in heap T.
ElemsVia(T, l) == ThirdElems(T, l, Fuel)

\* Every list the caller holds shows in T the elements it shows now, and
\* every node alive now is in T as it is now.
ThirdUntouched(T) ==
    /\ \A g \in Held : ElemsVia(T, third.lists[g]) = ElemsVia(third, third.lists[g])
    /\ \A n \in third.live : n \in T.live /\ T.node[n] = third.node[n]

\* C23: prepend and tail change nothing that is seen through the receiver
\* or through any other list (head and the element sequence are as before,
\* and so is every node); prepend(e) returns a list whose head is e, whose
\* elements are e followed by the receiver's, and whose tail is the
\* receiver's head link; tail returns the receiver's elements without the
\* first, and the empty list for an empty receiver.
C23_Persistent ==
    \A h \in Held :
        LET l == third.lists[h]
            E == ElemsVia(third, l)
            Q == ThirdTail(third, l)
        IN  /\ ThirdUntouched(Q.st) /\ Q.st.live = third.live
            /\ ThirdHead(Q.st, l) = ThirdHead(third, l)
            /\ ElemsVia(Q.st, Q.head) = (IF E = <<>> THEN <<>> ELSE Tail(E))
            /\ l = None => Q.head = None
            /\ ThirdHead(third, l) = (IF E = <<>> THEN None ELSE E[1])
            /\ Cardinality(third.live) < MaxNodes =>
                 \A e \in ThirdVals :
                    LET P == ThirdPrepend(third, l, e)
                    IN  /\ ThirdUntouched(P.st)
                        /\ ThirdHead(P.st, l) = ThirdHead(third, l)
                        /\ ThirdHead(P.st, P.head) = e
                        /\ ElemsVia(P.st, P.head) = <<e>> \o E
                        /\ ThirdTail(P.st, P.head).head = l

\* C23 witness: 2 was prepended to the list <<1>>; both lists are held and
\* the new list's first node is followed by the head node of <<1>>.
C23_Witness ==
    /\ target = "third" /\ ret.op = "prepend" /\ ret.unlinked = 1
    /\ ElemsVia(third, third.lists[2]) = <<1>>
    /\ ElemsVia(third, third.lists[1]) = <<2, 1>>
    /\ third.node[third.lists[1]].next = third.lists[2]

\* The nodes of the list bound to h, head first, and as a set.
ChainOf(h) == ThirdNodes(third, third.lists[h], Fuel)
NodesOf(h) == {ChainOf(h)[i] : i \in 1..Len(ChainOf(h))}
NodesOfOthers(h) == UNION {NodesOf(g) : g \in Held \ {h}}

\* The owners of node n: the lists whose head it is and the nodes whose
\* next it is.
ThirdOwners(n) ==
    Cardinality({g \in Held : third.lists[g] = n})
    + Cardinality({m \in third.live : third.node[m].next = n})

\* C24: dropping a list releases its nodes from the head on, one at a
\* time, and stops at the first node another list still refers to: the
\* nodes released are exactly those in front of the first node that has
\* another owner, which are the nodes no other list reaches; that node
\* loses one owner and nothing else changes; every node another held list
\* reaches stays allocated with payload and next as they were, and every
\* node only the dropped list reached is released.  In every state a node's
\* count is the number of its owners and every node alive is reached from
\* a held list.
C24_DropStopsAtShared ==
    /\ \A n \in third.live : third.rc[n] = ThirdOwners(n) /\ third.rc[n] >= 1
    /\ third.live = UNION {NodesOf(g) : g \in Held}
    /\ \A h \in Held :
         LET D      == ThirdDrop(third, third.lists[h])
             w      == ChainOf(h)
             shared == {i \in 1..Len(w) : third.rc[w[i]] > 1}
             stop   == IF shared = {} THEN Len(w) + 1 ELSE FirstOf(shared)
             gone   == {w[i] : i \in 1..(stop - 1)}
         IN  /\ gone = NodesOf(h) \ NodesOfOthers(h)
             /\ D.live = third.live \ gone
             /\ \A n \in gone : D.rc[n] = 0 /\ D.node[n] = BlankBox
             /\ \A n \in third.live \ gone :
                  /\ D.node[n] = third.node[n]
                  /\ D.rc[n] = IF stop <= Len(w) /\ n = w[stop]
                                THEN third.rc[n] - 1 ELSE third.rc[n]
             /\ \A g \in Held \ {h} :
                  ElemsVia(D, third.lists[g]) = ElemsVia(third, third.lists[g])

\* C24 witness: a list of three nodes was dropped while another list held
\* its last two; one node was released and the other list still shows
\* <<2, 1>>, its head node now having one owner.
C24_Witness ==
    /\ target = "third" /\ ret.op = "drop" /\ absret = 1
    /\ \E g \in Held :
         /\ ElemsVia(third, third.lists[g]) = <<2, 1>>
         /\ third.rc[third.lists[g]] = 1
    /\ Cardinality(third.live) = 2

\* The elements of the stack, head first.
StackElems == SecondElems(second, second.head, Fuel)

\* C25: on a first::List and on a second::List alike, every pop returns the
\* value pushed last among those not yet popped, None when there is none;
\* the stack holds the values pushed and not yet popped, newest first; and
\* pop on the empty stack returns None and leaves it empty.
C25_StackLifo ==
    /\ ret.op = "pop" => ret.val = NewestOf(logBefore)
    /\ StackElems = Reverse(log)
    /\ Cardinality(second.live) = Len(log)
    /\ second.head = None =>
         /\ log = <<>>
         /\ target = "first" =>
              FirstPop(second).val = None /\ FirstPop(second).st = second
         /\ target = "second" =>
              SecondPop(second).val = None /\ SecondPop(second).st = second

\* C25 witness: on a first::List, after push 1, push 2, push 2 and a pop,
\* 1 was pushed and popped again, the stack still holding <<2, 1>>.
C25_Witness ==
    /\ target = "first" /\ ret.op = "pop" /\ ret.val = 1
    /\ logBefore = <<1, 2, 1>> /\ log = <<1, 2>>
    /\ StackElems = <<2, 1>>

\* ------------------------------------------------------------- C26

\* The nodes of a second::List, head first.
RECURSIVE SecondNodes(_, _, _)
SecondNodes(L, n, k) ==
    IF n = None \/ k = 0 THEN <<>>
    ELSE <<n>> \o SecondNodes(L, L.node[n].next, k - 1)

\* The elements and the nodes of the list the iterator borrows.
BorrowedElems == IF target = "second" THEN StackElems
                 ELSE ElemsVia(third, third.lists[1])
BorrowedNodes == IF target = "second"
                 THEN SecondNodes(second, second.head, Fuel)
                 ELSE ThirdNodes(third, third.lists[1], Fuel)

\* C26: while an Iter of second::List or third::List is in use, the list
\* is as it was when it was first borrowed; the references yielded so far
\* are those of the first min(calls, length) nodes in head-to-tail order,
\* one per node; a call returns the element at its place or, past the
\* end, None, on every further call too; and a pass that ran to None
\* before a fresh iter was taken had yielded the same sequence.
C26_IterInOrder ==
    phase = "iter" =>
        /\ BorrowedElems = orig
        /\ fronts = SubSeq(orig, 1, Min(calls, Len(orig)))
        /\ cursor.given = SubSeq(BorrowedNodes, 1, Len(fronts))
        /\ noneSeen = (calls > Len(orig))
        /\ (ret.op = "next" =>
               /\ ret.val = IF calls <= Len(orig) THEN orig[calls] ELSE None
               /\ ret.unlinked = IF calls <= Len(orig)
                                 THEN BorrowedNodes[calls] ELSE None)
        /\ (backs # <<>> => backs = orig)

\* A second pass over the list 2, 1, 2 of a second::List has yielded all
\* three and then None twice, after a first pass that yielded 2, 1, 2.
C26_Witness ==
    /\ target = "second" /\ phase = "iter"
    /\ orig = <<2, 1, 2>> /\ backs = <<2, 1, 2>> /\ fronts = <<2, 1, 2>>
    /\ calls = 5 /\ ret.op = "next" /\ ret.val = None
    /\ StackElems = <<2, 1, 2>>

\* ------------------------------------------------------------- C27

\* C27: while an IterMut of a second::List is in use, the references
\* yielded so far point into the first min(calls, length) nodes in
\* head-to-tail order and no node occurs twice among them; a call returns
\* the element now at its place (so a value written in an earlier pass is
\* what this pass yields there) or, past the end, None; and the list
\* holds the elements it had when it was borrowed except at the places
\* written through a yielded reference, which hold the value written.
C27_IterMutInOrder ==
    phase = "iter_mut" =>
        /\ StackElems = orig
        /\ Len(orig) = Len(abs)
        /\ cursor.given = SubSeq(SecondNodes(second, second.head, Fuel),
                                 1, Min(calls, Len(orig)))
        /\ \A i, j \in 1..Len(cursor.given) :
               cursor.given[i] = cursor.given[j] => i = j
        /\ noneSeen = (calls > Len(orig))
        /\ (ret.op = "next" =>
               /\ ret.val = IF calls <= Len(orig) THEN orig[calls] ELSE None
               /\ ret.unlinked = IF calls <= Len(orig)
                                 THEN cursor.given[calls] ELSE None)
        /\ (ret.op = "set" => second.node[ret.unlinked].elem = ret.val)

\* The list was pushed as 1, 1, 1; the second call of a pass yields 2, the
\* value an earlier pass wrote at the second place.
C27_Witness ==
    /\ target = "second" /\ phase = "iter_mut"
    /\ abs = <<1, 1, 1>> /\ orig = <<1, 2, 1>>
    /\ calls = 2 /\ ret.op = "next" /\ ret.val = 2
    /\ ret.unlinked = second.node[second.head].next

\* ------------------------------------------------------------- C28

\* The number of pop_front calls of the teardown loop that return Some.
RECURSIVE DropPops(_)
DropPops(S) ==
    LET r == PopFront(S)
    IN  IF r.st.panic # "none" \/ r.val = None THEN 0
        ELSE 1 + DropPops(r.st)

FromHead == {WalkNext(head, Fuel)[i] : i \in 1..Len(WalkNext(head, Fuel))}
NoneBorrowed == \A n \in live : node[n].borrow = 0

TeardownFrees ==
    /\ (panic = "none" /\ phase # "dropped") => live = FromHead
    /\ (panic = "none" /\ phase \in {"list", "iter"} /\ NoneBorrowed) =>
         LET D == DropList(Cur)
         IN  /\ DropPops(Cur) = Cardinality(live)
             /\ D.panic = "none"
             /\ D.head = None /\ D.tail = None /\ D.live = {}
             /\ \A n \in Ids : D.rc[n] = 0

EndsUnborrowed(S) ==
    /\ S.panic = "none"
    /\ \A n \in S.live : S.node[n].borrow = 0
IsPushOrPop == ret.op \in {"push_front", "push_back", "pop_front", "pop_back"}

\* C29: no node is its own next or prev, so the neighbour a pop updates
\* while it holds the removed node's RefMut is another node; from every
\* state with no node borrowed, push_front, push_back, pop_front and
\* pop_back each end without a borrow fault and with no node borrowed;
\* a push or pop that returned has left no borrow of its own (the flags
\* are those of the guards forgotten before it), and one that took the
\* fatal path started with a forgotten guard outstanding.
C29_NoConflictBySelf ==
    /\ \A n \in live : node[n].next # n /\ node[n].prev # n
    /\ (panic = "none" /\ phase = "list" /\ NoneBorrowed) =>
         /\ EndsUnborrowed(PopFront(Cur).st)
         /\ EndsUnborrowed(PopBack(Cur).st)
         /\ Cardinality(live) < MaxNodes =>
                \A e \in Vals : /\ EndsUnborrowed(PushFront(Cur, e))
                                /\ EndsUnborrowed(PushBack(Cur, e))
    /\ (IsPushOrPop /\ panic = "none") => MutCallOK
    /\ (IsPushOrPop /\ panic # "none") =>
         /\ panic = "already borrowed"
         /\ \E n \in live : leaked[n] # 0

\* pop_front took one node off a list of three, updating its neighbour
\* under the removed node's RefMut, and no node is borrowed.
C29_Witness ==
    /\ ret.op = "pop_front" /\ ret.val # None /\ panic = "none"
    /\ Cardinality(live) = 2 /\ NoneBorrowed
    /\ \A n \in Ids : leaked[n] = 0
    /\ node[head].prev = None /\ node[head].next = tail

\* ------------------------------------------------------------- C30

\* C30: no call faults, and after every call on a list that is not empty
\* the head node's prev and the tail node's next are None and every link
\* of a live node is None or a live node; the node a pop has just removed
\* is not live and neither head, tail nor any link refers to it.
C30_EndsClosed ==
    /\ panic = "none"
    /\ head # None =>
         /\ tail # None
         /\ node[head].prev = None
         /\ node[tail].next = None
    /\ \A n \in live : /\ node[n].next \in live \cup {None}
                        /\ node[n].prev \in live \cup {None}
    /\ (IsPop /\ ret.val # None) =>
         /\ ret.unlinked \notin live \cup {head, tail}
         /\ \A n \in live : /\ node[n].next # ret.unlinked
                             /\ node[n].prev # ret.unlinked

\* pop_back took the third node off a list: the new tail's next is None
\* and the two nodes left link to each other only.
C30_Witness ==
    /\ ret.op = "pop_back" /\ ret.val # None /\ panic = "none"
    /\ Cardinality(live) = 2 /\ head # tail
    /\ node[tail].next = None /\ node[tail].prev = head
    /\ node[head].prev = None /\ node[head].next = tail
    /\ ret.unlinked \notin live

\* ------------------------------------------------------------- C31

\* The step leaves node n as it was, and leaves its payload as it was.
SameNode(n) == node'[n] = node[n]
SameElem(n) == node'[n].elem = node[n].elem

\* A push at one end of a list that is not empty: the other end's field
\* and every node but the old boundary node are as they were, the old
\* boundary node has changed in its outward link only, and the one new
\* node is the new boundary.
PushFrontFrame ==
    (ret'.op = "push_front" /\ head # None) =>
        /\ tail' = tail /\ head' # head
        /\ live' \ live = {head'} /\ live \subseteq live'
        /\ \A n \in live : SameElem(n) /\ (n # head => SameNode(n))
        /\ node'[head].next = node[head].next
PushBackFrame ==
    (ret'.op = "push_back" /\ tail # None) =>
        /\ head' = head /\ tail' # tail
        /\ live' \ live = {tail'} /\ live \subseteq live'
        /\ \A n \in live : SameElem(n) /\ (n # tail => SameNode(n))
        /\ node'[tail].prev = node[tail].prev

\* A pop at one end of a list of two or more: the other end's field and
\* every node but the removed one and its neighbour are as they were, and
\* the neighbour keeps its payload and its inward link.
PopFrontFrame ==
    (ret'.op = "pop_front" /\ head # None /\ head # tail) =>
        /\ tail' = tail /\ head' = node[head].next
        /\ live' = live \ {head}
        /\ \A n \in live' : SameElem(n) /\ (n # head' => SameNode(n))
        /\ node'[head'].next = node[head'].next
PopBackFrame ==
    (ret'.op = "pop_back" /\ tail # None /\ head # tail) =>
        /\ head' = head /\ tail' = node[tail].prev
        /\ live' = live \ {tail}
        /\ \A n \in live' : SameElem(n) /\ (n # tail' => SameNode(n))
        /\ node'[tail'].prev = node[tail'].prev

\* head and tail both change in a step only when a push meets the empty
\* list, which sets both to the one new node, or a pop removes the last
\* element, which clears both.
BothEndsFrame ==
    /\ (ret'.op \in {"push_front", "push_back"} /\ head = None) =>
           /\ head' = tail' /\ live' = {head'}
    /\ (ret'.op \in {"pop_front", "pop_back"} /\ head # None
            /\ head = tail) =>
           /\ head' = None /\ tail' = None /\ live' = {}
    /\ (head' # head /\ tail' # tail) =>
           \/ ret'.op \in {"push_front", "push_back"} /\ head = None
           \/ ret'.op \in {"pop_front", "pop_back"} /\ head = tail

\* C31: push_front on a list that is not empty and pop_front on a list
\* of two or more leave tail, the tail's payload and every element but
\* the affected head as they were, push_back and pop_back likewise leave
\* head; head and tail are both written by one call only when a push
\* meets the empty list or a pop removes the last element.
C31_OwnEndOnly ==
    [][/\ PushFrontFrame /\ PushBackFrame
       /\ PopFrontFrame /\ PopBackFrame
       /\ BothEndsFrame]_vars

\* push_front has put a third node before a list of two: the tail node
\* has no successor and its predecessor is the old head.
C31_Witness ==
    /\ ret.op = "push_front" /\ panic = "none"
    /\ Cardinality(live) = 3 /\ head # tail
    /\ node[tail].next = None
    /\ node[node[tail].prev].prev = head
    /\ node[head].prev = None

\* ------------------------------------------------------------- C32

\* The pop r returned x and left the list S: the same head and tail, the
\* same nodes with the same payloads, links and owner counts, no fault.
BackAt(r, x, S) ==
    /\ r.val = x
    /\ r.st.panic = "none"
    /\ SameList(r.st, S)
    /\ \A n \in Ids : r.st.node[n].borrow = S.node[n].borrow

\* C32: from every state, push_front(x) followed at once by pop_front()
\* returns x and leaves the list as it was before the push, elements,
\* head, tail and links alike, and so does push_back(x) followed by
\* pop_back(); a pop that did follow a push at the same end returned the
\* value pushed and left the list the caller had before that push.
C32_RoundTrip ==
    /\ (panic = "none" /\ Cardinality(live) < MaxNodes) =>
         \A x \in Vals :
             /\ BackAt(PopFront(PushFront(Cur, x)), x, Cur)
             /\ BackAt(PopBack(PushBack(Cur, x)), x, Cur)
    /\ (ret.op = "pop_front" /\ pushDisc = "front" /\ orig # <<>>) =>
         BackAt([val |-> ret.val, st |-> Cur], fronts[1], orig[1])
    /\ (ret.op = "pop_back" /\ pushDisc = "back" /\ orig # <<>>) =>
         BackAt([val |-> ret.val, st |-> Cur], fronts[1], orig[1])

\* push_back(2) on a list of two and then pop_back(): 2 came back and
\* the list of two is as it was.
C32_Witness ==
    /\ ret.op = "pop_back" /\ pushDisc = "back" /\ orig # <<>>
    /\ ret.val = 2 /\ fronts = <<2>>
    /\ Cardinality(live) = 2 /\ head # tail
    /\ orig[1].head = head /\ orig[1].tail = tail
    /\ node[head].next = tail /\ node[tail].prev = head

====
